---- MODULE Spec2Model ----
(***************************************************************************)
(* Voting-power ledger of paulofi: the lock-guarded, checkpointed sync     *)
(* driver (src/app/api/sync/route.ts), the balance verifier                *)
(* (src/unnamed/part_004, src/lib/types.ts), the cleanup endpoint          *)
(* (src/app/api/cleanup/route.ts) and the partitioned file store           *)
(* (src/lib/storage.ts), run against a small token chain.                  *)
(*                                                                         *)
(* Granularity.  Every store call is an awaited async function (and a      *)
(* network call in the blob-backed variant of the store), so a handler can *)
(* be suspended, or its process can die, between any two of them.  One     *)
(* step of the model is one awaited store write or delete together with    *)
(* the reads and the in-memory computation that precede it; checkSyncLock  *)
(* is a step of its own.  The read cache of storage.ts is written through  *)
(* on every store and cleared after every checkpoint, so reads are         *)
(* modelled as reads of the files.                                         *)
(*                                                                         *)
(* Scaling.  Block numbers, balances and sizes are scaled down: the chunk  *)
(* size, the save interval and the partition size keep their role and      *)
(* their order (chunkSize < saveInterval) but not their magnitude.  Wall   *)
(* clock fields that no store decision reads (lastSyncTimestamp,           *)
(* asOfTimestamp, the entry timestamp) are left out of the records.        *)
(***************************************************************************)
EXTENDS Integers, Sequences, FiniteSets, TLC

(***************************************************************************)
(* Bounds of the model                                                     *)
(***************************************************************************)
MaxBlock == 3

(***************************************************************************)
(* Program constants (scaled)                                              *)
(***************************************************************************)
PARTITION_SIZE == 2
chunkSize == 1
saveInterval == 2
LOCK_TIMEOUT_MS == 10 * 60 * 1000

(***************************************************************************)
(* Addresses.  Log arguments arrive checksummed (upper case here); the     *)
(* ledger keys are their toLowerCase() forms.                              *)
(***************************************************************************)
Holders == {"A", "B"}
TrackedDelegate == "D"
OtherDelegate == "O"

toLowerCase(s) ==
    CASE s = "A" -> "a" [] s = "B" -> "b" [] s = "D" -> "d" [] s = "O" -> "o"
      [] OTHER -> s

Checksum(s) ==
    CASE s = "a" -> "A" [] s = "b" -> "B" [] s = "d" -> "D" [] s = "o" -> "O"
      [] OTHER -> s

(***************************************************************************)
(* bigint <-> decimal string (BigInt(s), n.toString()): a string is the    *)
(* sequence of its decimal digits.                                         *)
(***************************************************************************)
RECURSIVE toString(_)
toString(n) == IF n < 10 THEN <<n>> ELSE toString(n \div 10) \o <<n % 10>>

RECURSIVE BigInt(_)
BigInt(s) ==
    IF Len(s) = 0 THEN 0
    ELSE 10 * BigInt(SubSeq(s, 1, Len(s) - 1)) + s[Len(s)]

(***************************************************************************)
(* Insertion-ordered maps (JS objects and Maps keep insertion order): a    *)
(* sequence of <<key, value>> records with distinct keys.                  *)
(***************************************************************************)
MapKeys(m) == [i \in 1..Len(m) |-> m[i].k]
MapKeySet(m) == {m[i].k : i \in 1..Len(m)}
MapHas(m, key) == \E i \in 1..Len(m) : m[i].k = key
MapGet(m, key) == m[CHOOSE i \in 1..Len(m) : m[i].k = key].v
MapSet(m, key, val) ==
    IF MapHas(m, key)
    THEN [i \in 1..Len(m) |-> IF m[i].k = key THEN [k |-> key, v |-> val] ELSE m[i]]
    ELSE Append(m, [k |-> key, v |-> val])
MapDelete(m, key) == SelectSeq(m, LAMBDA e : e.k # key)
MapAsFunction(m) == [key \in MapKeySet(m) |-> MapGet(m, key)]

RECURSIVE SeqSum(_)
SeqSum(s) == IF Len(s) = 0 THEN 0 ELSE s[1] + SeqSum(Tail(s))

\* Record<string, string>  ->  Record<string, bigint>, keys lower-cased
RECURSIVE ToBigIntMap(_)
ToBigIntMap(m) ==
    IF Len(m) = 0 THEN << >>
    ELSE MapSet(ToBigIntMap(SubSeq(m, 1, Len(m) - 1)),
                toLowerCase(m[Len(m)].k), BigInt(m[Len(m)].v))

\* Record<string, bigint>  ->  Record<string, string>
ToStringMap(m) == [i \in 1..Len(m) |-> [k |-> m[i].k, v |-> toString(m[i].v)]]

\* sum of the values of a Record<string, bigint>
SumBigInt(m) == SeqSum([i \in 1..Len(m) |-> m[i].v])

\* sum of the values of a Record<string, string> (storage.ts, verify route)
calculateTotalVotingPower(m) == SeqSum([i \in 1..Len(m) |-> BigInt(m[i].v)])

\* stable sort of a sequence of <<key, item>> pairs by ascending key
RECURSIVE InsertByKey(_, _)
InsertByKey(sorted, p) ==
    IF Len(sorted) = 0 THEN <<p>>
    ELSE IF sorted[Len(sorted)].key <= p.key THEN Append(sorted, p)
    ELSE Append(InsertByKey(SubSeq(sorted, 1, Len(sorted) - 1), p), sorted[Len(sorted)])

RECURSIVE StableSort(_)
StableSort(ps) ==
    IF Len(ps) = 0 THEN << >>
    ELSE InsertByKey(StableSort(SubSeq(ps, 1, Len(ps) - 1)), ps[Len(ps)])

RECURSIVE Concat(_)
Concat(ss) == IF Len(ss) = 0 THEN << >> ELSE ss[1] \o Concat(Tail(ss))

(***************************************************************************)
(* The token chain (ERC20Votes), the environment behind the log source.    *)
(* A chain is a function from block number to the one transaction of the   *)
(* block: a holder delegates, or a holder's balance changes by a transfer  *)
(* with an untracked account.  balanceOf / delegates at block n give the   *)
(* state after block n.                                                    *)
(***************************************************************************)
InitialBalance == 2
Balances == {0, 1, 2}
ExternalAccount == "E"

NoTx == [k |-> "none", who |-> "-", to |-> "-", bal |-> 0]
ChainOps ==
    {NoTx}
    \cup {[k |-> "del", who |-> h, to |-> t, bal |-> 0] :
             h \in Holders, t \in {TrackedDelegate, OtherDelegate}}
    \cup {[k |-> "xfer", who |-> h, to |-> "-", bal |-> v] :
             h \in Holders, v \in Balances}

RECURSIVE balanceOf(_, _, _)
balanceOf(c, account, n) ==
    IF n = 0 THEN InitialBalance
    ELSE IF c[n].k = "xfer" /\ c[n].who = Checksum(account) THEN c[n].bal
    ELSE balanceOf(c, account, n - 1)

RECURSIVE delegates(_, _, _)
delegates(c, account, n) ==
    IF n = 0 THEN OtherDelegate
    ELSE IF c[n].k = "del" /\ c[n].who = Checksum(account) THEN c[n].to
    ELSE delegates(c, account, n - 1)

BlockTimestamp(n) == 100 + n

Log(ev, n, idx, delegator, fromD, toD, delegate, from, to) ==
    [event |-> ev, blockNumber |-> n, logIndex |-> idx, transactionHash |-> n,
     delegator |-> delegator, fromDelegate |-> fromD, toDelegate |-> toD,
     delegate |-> delegate, from |-> from, to |-> to]

\* the logs of block n in log-index order
BlockLogs(c, n) ==
    LET op == c[n] IN
    CASE op.k = "del" ->
           LET f == delegates(c, op.who, n - 1)
               moved == f # op.to /\ balanceOf(c, op.who, n) > 0
           IN  <<Log("DelegateChanged", n, 0, op.who, f, op.to, "-", "-", "-")>>
               \o (IF moved
                   THEN <<Log("DelegateVotesChanged", n, 1, "-", "-", "-", f, "-", "-"),
                          Log("DelegateVotesChanged", n, 2, "-", "-", "-", op.to, "-", "-")>>
                   ELSE << >>)
      [] op.k = "xfer" ->
           LET old == balanceOf(c, op.who, n - 1)
               out == op.bal <= old
           IN  <<Log("Transfer", n, 0, "-", "-", "-", "-",
                     IF out THEN op.who ELSE ExternalAccount,
                     IF out THEN ExternalAccount ELSE op.who)>>
               \o (IF op.bal # old
                   THEN <<Log("DelegateVotesChanged", n, 1, "-", "-", "-",
                              delegates(c, op.who, n - 1), "-", "-")>>
                   ELSE << >>)
      [] OTHER -> << >>

\* eventClient.getLogs over [fromBlock, toBlock] with an argument filter
getLogs(c, event, arg, address, fromBlock, toBlock) ==
    IF toBlock < fromBlock THEN << >>
    ELSE Concat([i \in 1..(toBlock - fromBlock + 1) |->
                   SelectSeq(BlockLogs(c, fromBlock + i - 1),
                             LAMBDA l : /\ l.event = event
                                        /\ toLowerCase(l[arg]) = toLowerCase(address))])

(***************************************************************************)
(* Event fetching (the blockchain library)                                 *)
(***************************************************************************)
\* the distinct elements of a sequence, in order of first occurrence
RECURSIVE DistinctSeq(_)
DistinctSeq(s) ==
    IF Len(s) = 0 THEN << >>
    ELSE LET front == DistinctSeq(SubSeq(s, 1, Len(s) - 1))
             x == s[Len(s)]
         IN  IF \E i \in 1..Len(front) : front[i] = x THEN front ELSE Append(front, x)

\* new Map(logs.map(log => [`${blockNumber}-${logIndex}`, log])).values()
uniqueDelegateChangedLogs(logs) ==
    LET keyOf(l) == <<l.blockNumber, l.logIndex>>
        keys == DistinctSeq([i \in 1..Len(logs) |-> keyOf(logs[i])])
        lastWith(key) == logs[CHOOSE i \in 1..Len(logs) :
                                 /\ keyOf(logs[i]) = key
                                 /\ \A j \in (i + 1)..Len(logs) : keyOf(logs[j]) # key]
    IN  [i \in 1..Len(keys) |-> lastWith(keys[i])]

\* deduplicateEvents without the per-transaction choice: the weight-change
\* logs of a transaction are emitted even when it has a relationship change
deduplicateEventsKeepVotes(delegateChangedLogs, votesChangedLogs) ==
    LET tag(type, logs) == [i \in 1..Len(logs) |-> [type |-> type, log |-> logs[i]]]
        deduplicated == tag("DELEGATE_CHANGED", delegateChangedLogs)
                        \o tag("VOTES_CHANGED", votesChangedLogs)
        sorted == StableSort([i \in 1..Len(deduplicated) |->
                     [key |-> deduplicated[i].log.blockNumber * 100
                                + deduplicated[i].log.logIndex,
                      item |-> deduplicated[i]]])
    IN  [i \in 1..Len(sorted) |-> sorted[i].item]

deduplicateEvents(delegateChangedLogs, votesChangedLogs) ==
    LET txs == DistinctSeq([i \in 1..Len(delegateChangedLogs) |->
                              delegateChangedLogs[i].transactionHash]
                           \o [i \in 1..Len(votesChangedLogs) |->
                              votesChangedLogs[i].transactionHash])
        changedOf(tx) == SelectSeq(delegateChangedLogs, LAMBDA l : l.transactionHash = tx)
        votesOf(tx) == SelectSeq(votesChangedLogs, LAMBDA l : l.transactionHash = tx)
        tag(type, logs) == [i \in 1..Len(logs) |-> [type |-> type, log |-> logs[i]]]
        emitted(tx) == IF Len(changedOf(tx)) > 0
                       THEN tag("DELEGATE_CHANGED", changedOf(tx))
                       ELSE tag("VOTES_CHANGED", votesOf(tx))
        deduplicated == Concat([i \in 1..Len(txs) |-> emitted(txs[i])])
        sorted == StableSort([i \in 1..Len(deduplicated) |->
                     [key |-> deduplicated[i].log.blockNumber * 100
                                + deduplicated[i].log.logIndex,
                      item |-> deduplicated[i]]])
    IN  [i \in 1..Len(sorted) |-> sorted[i].item]

\* events.sort((a, b) => a.blockNumber - b.blockNumber || a.timestamp - b.timestamp)
SortEvents(events) ==
    LET sorted == StableSort([i \in 1..Len(events) |->
                     [key |-> events[i].blockNumber * 1000 + events[i].timestamp,
                      item |-> events[i]]])
    IN  [i \in 1..Len(sorted) |-> sorted[i].item]

\* queryAllDelegatorBalances: a Map address.toLowerCase() -> balance at the block
queryAllDelegatorBalances(c, delegators, blockNumber) ==
    LET RECURSIVE build(_)
        build(i) == IF i = 0 THEN << >>
                    ELSE MapSet(build(i - 1), toLowerCase(delegators[i]),
                                balanceOf(c, delegators[i], blockNumber))
    IN  build(Len(delegators))

\* the BALANCE_CHANGED events of one VOTES_CHANGED log: every queried
\* delegator whose balance differs from previousBalances (0 when unknown)
RECURSIVE VotesChangedEvents(_, _, _, _, _)
VotesChangedEvents(newBalances, i, delegateAddress, blockNumber, acc) ==
    IF i > Len(newBalances) THEN acc
    ELSE LET delegatorAddr == newBalances[i].k
             newBalance == newBalances[i].v
             oldBalance == IF MapHas(acc.previousBalances, delegatorAddr)
                           THEN MapGet(acc.previousBalances, delegatorAddr) ELSE 0
         IN  VotesChangedEvents(newBalances, i + 1, delegateAddress, blockNumber,
                IF newBalance # oldBalance
                THEN [events |-> Append(acc.events,
                         [from |-> delegatorAddr, to |-> delegateAddress,
                          previousBalance |-> oldBalance, newBalance |-> newBalance,
                          blockNumber |-> blockNumber,
                          timestamp |-> BlockTimestamp(blockNumber),
                          eventType |-> "BALANCE_CHANGED", delegator |-> delegatorAddr]),
                      previousBalances |->
                          MapSet(acc.previousBalances, delegatorAddr, newBalance)]
                ELSE acc)

\* the loop over the deduplicated logs of fetchDelegationEvents
RECURSIVE DelegationEventLoop(_, _, _, _, _)
DelegationEventLoop(c, delegateAddress, currentDelegators, items, acc) ==
    IF Len(items) = 0 THEN acc
    ELSE LET type == items[1].type
             log == items[1].log
             blockNumber == log.blockNumber
             next ==
               IF type = "DELEGATE_CHANGED"
               THEN LET delegator == log.delegator
                        balance == balanceOf(c, delegator, blockNumber)
                        isDelegatingTo == log.toDelegate = delegateAddress
                    IN  [events |-> Append(acc.events,
                           [from |-> IF isDelegatingTo THEN delegator ELSE delegateAddress,
                            to |-> IF isDelegatingTo THEN delegateAddress ELSE log.toDelegate,
                            previousBalance |-> IF isDelegatingTo THEN 0 ELSE balance,
                            newBalance |-> IF isDelegatingTo THEN balance ELSE 0,
                            blockNumber |-> blockNumber,
                            timestamp |-> BlockTimestamp(blockNumber),
                            eventType |-> "DELEGATE_CHANGED", delegator |-> "-"]),
                         previousBalances |->
                            MapSet(acc.previousBalances, toLowerCase(delegator), balance)]
               ELSE IF Len(currentDelegators) = 0 THEN acc
               ELSE VotesChangedEvents(
                        queryAllDelegatorBalances(c, currentDelegators, blockNumber),
                        1, delegateAddress, blockNumber, acc)
         IN  DelegationEventLoop(c, delegateAddress, currentDelegators, Tail(items), next)

\* logsOk = FALSE: one of the three getLogs calls failed after all retries
fetchDelegationEvents(c, delegateAddress, fromBlock, toBlock, currentDelegators, logsOk) ==
    IF ~logsOk THEN << >>
    ELSE
    LET delegateChangedLogs ==
            getLogs(c, "DelegateChanged", "toDelegate", delegateAddress, fromBlock, toBlock)
        undelegateLogs ==
            getLogs(c, "DelegateChanged", "fromDelegate", delegateAddress, fromBlock, toBlock)
        votesChangedLogs ==
            getLogs(c, "DelegateVotesChanged", "delegate", delegateAddress, fromBlock, toBlock)
        deduplicatedEvents ==
            deduplicateEvents(uniqueDelegateChangedLogs(delegateChangedLogs \o undelegateLogs),
                              votesChangedLogs)
    IN  SortEvents(DelegationEventLoop(c, delegateAddress, currentDelegators,
                       deduplicatedEvents,
                       [events |-> << >>, previousBalances |-> << >>]).events)

\* the Transfer logs from or to one delegator, unique by transaction and log index
TransferLogsOf(c, delegator, fromBlock, toBlock) ==
    DistinctSeq(
        getLogs(c, "Transfer", "from", delegator, fromBlock, toBlock)
        \o getLogs(c, "Transfer", "to", delegator, fromBlock, toBlock))

fetchTransferEvents(c, delegateAddress, delegators, fromBlock, toBlock) ==
    LET eventsOf(delegator) ==
            LET logs == TransferLogsOf(c, delegator, fromBlock, toBlock)
            IN  [i \in 1..Len(logs) |->
                   [from |-> delegator, to |-> delegateAddress,
                    previousBalance |-> 0,
                    newBalance |-> balanceOf(c, delegator, logs[i].blockNumber),
                    blockNumber |-> logs[i].blockNumber,
                    timestamp |-> BlockTimestamp(logs[i].blockNumber),
                    eventType |-> "BALANCE_CHANGED", delegator |-> delegator]]
    IN  Concat([i \in 1..Len(delegators) |-> eventsOf(delegators[i])])

(***************************************************************************)
(* Ledger builder: processEvents of the sync route                         *)
(***************************************************************************)
\* first key, in insertion order, whose balance equals previousBalance
FirstWithBalance(delegators, balance) ==
    LET hits == SelectSeq(delegators, LAMBDA e : e.v = balance)
    IN  IF Len(hits) = 0 THEN "-" ELSE hits[1].k

\* one event applied to [delegators, stateChanged]
ApplyEvent(st, event, delegateAddress) ==
    LET delegateAddrLower == toLowerCase(delegateAddress)
        fromLower == toLowerCase(event.from)
        toLower == toLowerCase(event.to)
        delegators == st.delegators
    IN  IF event.eventType = "DELEGATE_CHANGED"
        THEN IF toLower = delegateAddrLower
             THEN [delegators |-> MapSet(delegators, fromLower, event.newBalance),
                   stateChanged |-> TRUE]
             ELSE IF fromLower = delegateAddrLower
             THEN LET addr == FirstWithBalance(delegators, event.previousBalance)
                  IN  IF addr = "-" THEN st
                      ELSE [delegators |-> MapDelete(delegators, addr),
                            stateChanged |-> TRUE]
             ELSE IF MapHas(delegators, fromLower)
             THEN [delegators |-> MapDelete(delegators, fromLower), stateChanged |-> TRUE]
             ELSE st
        ELSE \* BALANCE_CHANGED
             LET delegatorAddr == toLowerCase(event.delegator)
             IN  IF MapHas(delegators, delegatorAddr)
                 THEN [delegators |-> MapSet(delegators, delegatorAddr, event.newBalance),
                       stateChanged |-> st.stateChanged
                                        \/ MapGet(delegators, delegatorAddr) # event.newBalance]
                 ELSE st

RECURSIVE ApplyEvents(_, _, _)
ApplyEvents(st, events, delegateAddress) ==
    IF Len(events) = 0 THEN st
    ELSE ApplyEvents(ApplyEvent(st, events[1], delegateAddress), Tail(events), delegateAddress)

\* TimelineEntryOf with a total that leaves out the last balance of the map:
\* the variant C6 is checked against, to show that its formula reads the total
TimelineEntryOfShortTotal(blockNumber, delegators) ==
    [blockNumber |-> blockNumber,
     totalVotingPower |-> toString(SumBigInt(SubSeq(delegators, 1, Len(delegators) - 1))),
     delegators |-> ToStringMap(delegators)]

\* the timeline entry pushed for a block whose events changed the state
TimelineEntryOf(blockNumber, delegators) ==
    [blockNumber |-> blockNumber,
     totalVotingPower |-> toString(SumBigInt(delegators)),
     delegators |-> ToStringMap(delegators)]

\* the loop over sortedBlocks; acc = [delegators, timeline]
RECURSIVE ProcessBlocks(_, _, _, _)
ProcessBlocks(events, delegateAddress, blocks, acc) ==
    IF blocks = {} THEN acc
    ELSE LET blockNumber == CHOOSE b \in blocks : \A o \in blocks : b <= o
             blockEvents == SelectSeq(events, LAMBDA e : e.blockNumber = blockNumber)
             after == ApplyEvents([delegators |-> acc.delegators, stateChanged |-> FALSE],
                                  blockEvents, delegateAddress)
         IN  ProcessBlocks(events, delegateAddress, blocks \ {blockNumber},
                [delegators |-> after.delegators,
                 timeline |-> IF after.stateChanged
                              THEN Append(acc.timeline,
                                          TimelineEntryOf(blockNumber, after.delegators))
                              ELSE acc.timeline])

processEvents(events, delegateAddress, initialDelegators) ==
    LET r == ProcessBlocks(events, delegateAddress,
                           {events[i].blockNumber : i \in 1..Len(events)},
                           [delegators |-> initialDelegators, timeline |-> << >>])
    IN  [timeline |-> r.timeline, currentDelegators |-> ToStringMap(r.delegators)]

\* the per-chunk update of delegatorsState (who is tracked for Transfer logs)
RECURSIVE TrackDelegators(_, _, _)
TrackDelegators(delegatorsState, events, delegateAddress) ==
    IF Len(events) = 0 THEN delegatorsState
    ELSE LET event == events[1]
             fromLower == toLowerCase(event.from)
             toLower == toLowerCase(event.to)
             delegatorAddr == toLowerCase(event.delegator)
             next ==
               IF event.eventType = "DELEGATE_CHANGED"
               THEN IF toLower = toLowerCase(delegateAddress)
                    THEN MapSet(delegatorsState, fromLower, event.newBalance)
                    ELSE IF MapHas(delegatorsState, fromLower)
                    THEN MapDelete(delegatorsState, fromLower)
                    ELSE delegatorsState
               ELSE IF MapHas(delegatorsState, delegatorAddr)
                    THEN MapSet(delegatorsState, delegatorAddr, event.newBalance)
                    ELSE delegatorsState
         IN  TrackDelegators(next, Tail(events), delegateAddress)

(***************************************************************************)
(* State                                                                   *)
(*                                                                         *)
(* An optional value (a file that may be absent, T | null) is << >> or     *)
(* <<value>>.                                                              *)
(***************************************************************************)
VARIABLES
    chain,      \* the token chain, blocks 1..MaxBlock
    head,       \* the chain head the RPC endpoints report
    endBlock,   \* config.endBlock: << >> is "latest", <<n>> a block number
    now,        \* Date.now()
    files,      \* the data directory
    proc,       \* the request handlers in flight, one record per process
    opsLeft,    \* requests still to be issued
    faultsLeft, \* crashes and thrown errors still to be injected
    call        \* a library function called on its own: arguments and result

vars == <<chain, head, endBlock, now, files, proc, opsLeft, faultsLeft, call>>

Procs == {1, 2}
DelegateAddress == TrackedDelegate      \* config.delegateAddress
StartBlock == 1                         \* config.startBlock

\* no library function is called on its own
NoCall == [fn |-> "-", args |-> << >>, done |-> FALSE, result |-> << >>]

NoFiles ==
    [lock |-> << >>, progress |-> << >>, metadata |-> << >>,
     currentState |-> << >>, index |-> << >>, partitions |-> << >>]

\* the partition files are a map partitionId -> entries
PartitionExists(fs, id) == MapHas(fs.partitions, id)
PartitionEntries(fs, id) == MapGet(fs.partitions, id)

Idle ==
    [pc |-> "idle", op |-> "-", admitted |-> "-", outcome |-> "-",
     fromBlock |-> 0, toBlock |-> 0, currentFrom |-> 0, currentTo |-> 0,
     lastSaveBlock |-> 0, accumulatedEvents |-> << >>,
     delegatorsState |-> << >>, checkpointStartState |-> << >>,
     totalTimelineEntries |-> 0, totalEventsProcessed |-> 0,
     pendingState |-> << >>, pendingMetadata |-> << >>,
     entriesToAdd |-> << >>, index |-> << >>, ret |-> "-",
     partitionsToDelete |-> << >>, maxBlock |-> 0, mode |-> "-",
     delegatorsForTracking |-> << >>]

\* the handler returned: only its outcome is kept
Returned(loc, outcome) == [Idle EXCEPT !.op = loc.op, !.admitted = loc.admitted,
                                       !.maxBlock = loc.maxBlock,
                                       !.outcome = outcome]

Min(a, b) == IF a < b THEN a ELSE b
CeilDiv(a, b) == (a + b - 1) \div b

(***************************************************************************)
(* Lock management (storage.ts)                                            *)
(***************************************************************************)
\* checkSyncLock with the stale test at the timeout itself (>= for >)
checkSyncLockAtTimeout(fs, t) ==
    IF fs.lock = << >> THEN "free"
    ELSE IF t - fs.lock[1].startedAt >= LOCK_TIMEOUT_MS THEN "stale"
    ELSE "held"

\* checkSyncLock: "free", "stale" (the record is deleted) or "held"
checkSyncLock(fs, t) ==
    IF fs.lock = << >> THEN "free"
    ELSE IF t - fs.lock[1].startedAt > LOCK_TIMEOUT_MS THEN "stale"
    ELSE "held"

releaseSyncLock(fs) == [fs EXCEPT !.lock = << >>]
clearSyncProgress(fs) == [fs EXCEPT !.progress = << >>]

\* acquireSyncLock up to the await of checkSyncLock
AcquireCheckEffect(fs, loc, t, op, mode) ==
    LET found == checkSyncLock(fs, t)
    IN  IF found = "held"
        THEN [files |-> fs,
              loc |-> [Idle EXCEPT !.op = op, !.outcome = "conflict"]]
        ELSE [files |-> IF found = "stale" THEN releaseSyncLock(fs) ELSE fs,
              loc |-> [Idle EXCEPT !.pc = "acquire_write", !.op = op,
                                   !.mode = mode, !.admitted = found]]

\* acquireSyncLock from the write of the lock record on
AcquireWriteEffect(fs, loc, t, p) ==
    [files |-> [fs EXCEPT !.lock = <<[syncInProgress |-> TRUE, startedAt |-> t, pid |-> p]>>],
     loc |-> [loc EXCEPT !.pc = CASE loc.op = "sync" -> "sync_init"
                                  [] loc.op = "background" -> "background_init"
                                  [] OTHER -> "verify_run"]]

(***************************************************************************)
(* appendTimelineEntries (storage.ts): one step per partition write, then  *)
(* the index write                                                         *)
(***************************************************************************)
EmptyIndex == [totalEntries |-> 0, partitions |-> << >>]

PartitionInfo(id, blockNumber) ==
    [id |-> id, startBlock |-> blockNumber, endBlock |-> blockNumber, entryCount |-> 0]

SumEntryCounts(partitions) == SeqSum([i \in 1..Len(partitions) |-> partitions[i].entryCount])

AppendPartEffect(fs, loc) ==
    LET entriesToAdd == loc.entriesToAdd
        \* first iteration: getTimelineIndex, initialised when absent
        read == IF loc.index # << >> THEN loc.index[1]
                ELSE IF fs.index = << >> THEN EmptyIndex ELSE fs.index[1]
        index == IF loc.index = << >> /\ Len(read.partitions) = 0
                 THEN [read EXCEPT !.partitions =
                          <<PartitionInfo(0, entriesToAdd[1].blockNumber)>>]
                 ELSE read
        n == Len(index.partitions)
        lastPartition == index.partitions[n]
        currentPartitionId == lastPartition.id
        existing == IF PartitionExists(fs, currentPartitionId)
                    THEN PartitionEntries(fs, currentPartitionId) ELSE << >>
        spaceInPartition == PARTITION_SIZE - Len(existing)
        taken == IF spaceInPartition < 0 THEN 0 ELSE Min(spaceInPartition, Len(entriesToAdd))
        batch == SubSeq(entriesToAdd, 1, taken)
        rest == SubSeq(entriesToAdd, taken + 1, Len(entriesToAdd))
        entries == existing \o batch
        updated == [lastPartition EXCEPT
                       !.entryCount = Len(entries),
                       !.endBlock = entries[Len(entries)].blockNumber,
                       !.startBlock = IF Len(entries) = 1 THEN entries[1].blockNumber
                                      ELSE lastPartition.startBlock]
        partitions == [index.partitions EXCEPT ![n] = updated]
        grown == IF Len(entries) >= PARTITION_SIZE /\ Len(rest) > 0
                 THEN Append(partitions,
                             PartitionInfo(currentPartitionId + 1, rest[1].blockNumber))
                 ELSE partitions
    IN  [files |-> [fs EXCEPT !.partitions = MapSet(@, currentPartitionId, entries)],
         loc |-> [loc EXCEPT !.entriesToAdd = rest,
                             !.index = <<[index EXCEPT !.partitions = grown]>>,
                             !.pc = IF Len(rest) > 0 THEN "append_part" ELSE "append_index"]]

AppendIndexEffect(fs, loc) ==
    LET index == loc.index[1]
    IN  [files |-> [fs EXCEPT !.index =
                       <<[index EXCEPT !.totalEntries = SumEntryCounts(index.partitions)]>>],
         loc |-> [loc EXCEPT !.index = << >>, !.pc = loc.ret, !.ret = "-"]]

\* getFullTimeline: the entries of the indexed partitions, in index order
getFullTimeline(fs) ==
    IF fs.index = << >> THEN << >>
    ELSE LET ps == fs.index[1].partitions
         IN  Concat([i \in 1..Len(ps) |->
                       IF PartitionExists(fs, ps[i].id)
                       THEN PartitionEntries(fs, ps[i].id) ELSE << >>])

\* the filter of getTimelineRange: entries with fromBlock <= blockNumber <= toBlock
InBlockRange(entries, fromBlock, toBlock) ==
    LET Keep(e) == e.blockNumber >= fromBlock /\ e.blockNumber <= toBlock
    IN  SelectSeq(entries, Keep)

\* the partitions getTimelineRange reads: those whose indexed range meets the request
relevantPartitions(fs, fromBlock, toBlock) ==
    LET Relevant(info) == info.endBlock >= fromBlock /\ info.startBlock <= toBlock
    IN  IF fs.index = << >> THEN << >>
        ELSE SelectSeq(fs.index[1].partitions, Relevant)

\* getTimelineRange: the matching entries of the relevant partitions, in index order
getTimelineRange(fs, fromBlock, toBlock) ==
    LET ps == relevantPartitions(fs, fromBlock, toBlock)
    IN  Concat([i \in 1..Len(ps) |->
                  IF PartitionExists(fs, ps[i].id)
                  THEN InBlockRange(PartitionEntries(fs, ps[i].id), fromBlock, toBlock)
                  ELSE << >>])

(***************************************************************************)
(* Sync driver: POST of the sync route                                     *)
(***************************************************************************)
\* Record<string, string> -> Record<string, bigint>, keys kept as they are
FromStringMap(m) == [i \in 1..Len(m) |-> [k |-> m[i].k, v |-> BigInt(m[i].v)]]

resolveEndBlock(cfgEndBlock, h) == IF cfgEndBlock = << >> THEN h ELSE cfgEndBlock[1]

\* from getMetadata() to the start of the chunk loop
SyncInitEffect(fs, loc, h, cfgEndBlock) ==
    LET metadata == fs.metadata
        currentState == fs.currentState
        maxBlock == resolveEndBlock(cfgEndBlock, h)
        fromBlock == IF metadata # << >> THEN metadata[1].lastSyncedBlock + 1 ELSE StartBlock
        currentBlock == h
        toBlock == IF currentBlock > maxBlock THEN maxBlock ELSE currentBlock
        delegatorsState == IF currentState # << >>
                           THEN ToBigIntMap(currentState[1].delegators) ELSE << >>
    IN  IF fromBlock > toBlock
        THEN [files |-> releaseSyncLock(fs), loc |-> Returned(loc, "up_to_date")]
        ELSE [files |-> fs,
              loc |-> [loc EXCEPT
                  !.pc = "sync_chunk",
                  !.fromBlock = fromBlock, !.toBlock = toBlock,
                  !.currentFrom = fromBlock, !.lastSaveBlock = fromBlock,
                  !.delegatorsState = delegatorsState,
                  !.checkpointStartState = delegatorsState,
                  !.totalTimelineEntries =
                      IF metadata # << >> THEN metadata[1].totalTimelineEntries ELSE 0]]

SyncProgressRecord(loc) ==
    [isActive |-> TRUE, currentBlock |-> loc.currentFrom, targetBlock |-> loc.toBlock,
     startBlock |-> loc.fromBlock, eventsProcessed |-> loc.totalEventsProcessed]

\* ProgressEffect with the next chunk starting at currentTo (for currentTo + 1)
ProgressEffectFromCurrentTo(fs, loc) ==
    [files |-> [fs EXCEPT !.progress = <<SyncProgressRecord(loc)>>],
     loc |-> [loc EXCEPT !.currentFrom = loc.currentTo,
                         !.pc = IF loc.currentTo + 1 <= loc.toBlock
                                THEN "sync_chunk" ELSE "sync_finish"]]

\* ProgressEffect with currentFrom left where it is
ProgressEffectSameChunk(fs, loc) ==
    [files |-> [fs EXCEPT !.progress = <<SyncProgressRecord(loc)>>],
     loc |-> [loc EXCEPT !.pc = IF loc.currentFrom <= loc.toBlock
                                THEN "sync_chunk" ELSE "sync_finish"]]

\* updateSyncProgress and the advance of currentFrom at the end of an iteration
ProgressEffect(fs, loc) ==
    [files |-> [fs EXCEPT !.progress = <<SyncProgressRecord(loc)>>],
     loc |-> [loc EXCEPT !.currentFrom = loc.currentTo + 1,
                         !.pc = IF loc.currentTo + 1 <= loc.toBlock
                                THEN "sync_chunk" ELSE "sync_finish"]]

\* the metadata record of a checkpoint
CheckpointMetadata(currentTo, currentDelegators, totalTimelineEntries) ==
    [lastSyncedBlock |-> currentTo,
     totalVotingPower |-> toString(calculateTotalVotingPower(currentDelegators)),
     totalDelegators |-> Len(currentDelegators),
     totalTimelineEntries |-> totalTimelineEntries,
     timelinePartitions |-> CeilDiv(totalTimelineEntries, PARTITION_SIZE)]

\* one iteration of the chunk loop up to its first store write: the fetch,
\* the merge and, at a checkpoint, processEvents and storeMetadata
SyncChunkStep(fs, loc, c, logsOk, size) ==
    LET currentFrom == loc.currentFrom
        currentTo == IF currentFrom + size > loc.toBlock THEN loc.toBlock
                     ELSE currentFrom + size
        currentDelegatorAddrs == MapKeys(loc.delegatorsState)
        delegationEvents == fetchDelegationEvents(c, DelegateAddress, currentFrom, currentTo,
                                                  currentDelegatorAddrs, logsOk)
        transferEvents == fetchTransferEvents(c, DelegateAddress, currentDelegatorAddrs,
                                              currentFrom, currentTo)
        events == SortEvents(delegationEvents \o transferEvents)
        accumulatedEvents == loc.accumulatedEvents \o events
        tracked == TrackDelegators(loc.delegatorsState, events, DelegateAddress)
        shouldSave == (currentTo - loc.lastSaveBlock >= saveInterval) \/ currentTo >= loc.toBlock
        result == IF Len(accumulatedEvents) > 0
                  THEN processEvents(accumulatedEvents, DelegateAddress,
                                     loc.checkpointStartState)
                  ELSE [timeline |-> << >>, currentDelegators |-> ToStringMap(tracked)]
        delegatorsState == IF Len(accumulatedEvents) > 0
                           THEN FromStringMap(result.currentDelegators) ELSE tracked
        totalTimelineEntries == loc.totalTimelineEntries + Len(result.timeline)
        seen == [loc EXCEPT !.currentTo = currentTo,
                            !.accumulatedEvents = accumulatedEvents,
                            !.delegatorsState = tracked]
    IN  IF shouldSave
        THEN [files |-> [fs EXCEPT !.metadata =
                  <<CheckpointMetadata(currentTo, result.currentDelegators,
                                       totalTimelineEntries)>>],
              loc |-> [seen EXCEPT
                  !.pc = "sync_save_state",
                  !.delegatorsState = delegatorsState,
                  !.totalTimelineEntries = totalTimelineEntries,
                  !.pendingState = <<[asOfBlock |-> currentTo,
                                      delegators |-> result.currentDelegators]>>,
                  !.entriesToAdd = result.timeline]]
        ELSE ProgressEffect(fs, seen)

SyncChunkEffect(fs, loc, c, logsOk) == SyncChunkStep(fs, loc, c, logsOk, chunkSize)

\* SyncSaveStateEffect without the reset of checkpointStartState
SyncSaveStateEffectKeepBase(fs, loc) ==
    [files |-> [fs EXCEPT !.currentState = loc.pendingState],
     loc |-> [loc EXCEPT
         !.pendingState = << >>,
         !.totalEventsProcessed = loc.totalEventsProcessed + Len(loc.accumulatedEvents),
         !.accumulatedEvents = << >>,
         !.lastSaveBlock = loc.currentTo,
         !.ret = IF Len(loc.entriesToAdd) > 0 THEN "sync_progress" ELSE "-",
         !.pc = IF Len(loc.entriesToAdd) > 0 THEN "append_part" ELSE "sync_progress"]]

\* storeCurrentState of the checkpoint, and the reset for the next interval
SyncSaveStateEffect(fs, loc) ==
    [files |-> [fs EXCEPT !.currentState = loc.pendingState],
     loc |-> [loc EXCEPT
         !.pendingState = << >>,
         !.totalEventsProcessed = loc.totalEventsProcessed + Len(loc.accumulatedEvents),
         !.accumulatedEvents = << >>,
         !.lastSaveBlock = loc.currentTo,
         !.checkpointStartState = loc.delegatorsState,
         !.ret = IF Len(loc.entriesToAdd) > 0 THEN "sync_progress" ELSE "-",
         !.pc = IF Len(loc.entriesToAdd) > 0 THEN "append_part" ELSE "sync_progress"]]

\* clearSyncProgress and releaseSyncLock after the loop
SyncFinishEffect(fs, loc) ==
    [files |-> releaseSyncLock(clearSyncProgress(fs)), loc |-> Returned(loc, "completed")]

\* the catch block of the sync route
SyncCatchEffect(fs, loc) ==
    [files |-> releaseSyncLock(clearSyncProgress(fs)), loc |-> Returned(loc, "error")]

(***************************************************************************)
(* Balance verifier: verifyAllDelegatorBalances, applyVerificationFixes    *)
(* and POST of the verify route                                            *)
(***************************************************************************)
Abs(x) == IF x < 0 THEN 0 - x ELSE x

\* failedReads: the stored addresses whose balanceOf/delegates read throws
RECURSIVE VerifyLoop(_, _, _, _, _, _, _, _)
VerifyLoop(c, delegateAddress, currentDelegators, threshold, currentBlock, failedReads, i, acc) ==
    IF i > Len(currentDelegators) THEN acc
    ELSE LET addr == currentDelegators[i].k
             storedBalance == BigInt(currentDelegators[i].v)
             actualBalance == balanceOf(c, addr, currentBlock)
             stillDelegating == toLowerCase(delegates(c, addr, currentBlock))
                                   = toLowerCase(delegateAddress)
             effectiveBalance == IF stillDelegating THEN actualBalance ELSE 0
             difference == effectiveBalance - storedBalance
             next ==
               IF addr \in failedReads THEN [acc EXCEPT !.failed = @ + 1]
               ELSE [acc EXCEPT
                       !.verified = @ + 1,
                       !.discrepancies =
                           IF difference # 0 /\ Abs(difference) > threshold
                           THEN Append(@, [address |-> addr,
                                           stored |-> toString(storedBalance),
                                           actual |-> toString(effectiveBalance),
                                           difference |-> difference])
                           ELSE @]
         IN  VerifyLoop(c, delegateAddress, currentDelegators, threshold, currentBlock,
                        failedReads, i + 1, next)

\* verifyAllDelegatorBalances recording a difference equal to the threshold
verifyAllDelegatorBalancesAtThreshold(c, delegateAddress, currentDelegators, threshold, currentBlock, failedReads) ==
    VerifyLoop(c, delegateAddress, currentDelegators, threshold - 1, currentBlock, failedReads,
               1, [verified |-> 0, discrepancies |-> << >>, failed |-> 0,
                   verifiedAtBlock |-> currentBlock])

verifyAllDelegatorBalances(c, delegateAddress, currentDelegators, threshold, currentBlock, failedReads) ==
    VerifyLoop(c, delegateAddress, currentDelegators, threshold, currentBlock, failedReads, 1,
               [verified |-> 0, discrepancies |-> << >>, failed |-> 0,
                verifiedAtBlock |-> currentBlock])

\* applyVerificationFixes deleting a delegator whose actual balance is zero
RECURSIVE applyVerificationFixesDropZero(_, _)
applyVerificationFixesDropZero(currentDelegators, discrepancies) ==
    IF Len(discrepancies) = 0 THEN currentDelegators
    ELSE LET disc == discrepancies[Len(discrepancies)]
             before == applyVerificationFixesDropZero(currentDelegators,
                          SubSeq(discrepancies, 1, Len(discrepancies) - 1))
         IN  IF BigInt(disc.actual) = 0
             THEN MapDelete(before, toLowerCase(disc.address))
             ELSE MapSet(before, toLowerCase(disc.address), toString(BigInt(disc.actual)))

RECURSIVE applyVerificationFixes(_, _)
applyVerificationFixes(currentDelegators, discrepancies) ==
    IF Len(discrepancies) = 0 THEN currentDelegators
    ELSE LET disc == discrepancies[Len(discrepancies)]
         IN  MapSet(applyVerificationFixes(currentDelegators,
                                           SubSeq(discrepancies, 1, Len(discrepancies) - 1)),
                    toLowerCase(disc.address), toString(BigInt(disc.actual)))

\* the timeline entry a fix appends
FixTimelineEntry(verifiedAtBlock, updatedDelegators) ==
    [blockNumber |-> verifiedAtBlock,
     totalVotingPower |-> toString(calculateTotalVotingPower(updatedDelegators)),
     delegators |-> updatedDelegators]

\* the metadata record a fix stores
FixMetadata(metadata, updatedDelegators) ==
    [metadata EXCEPT
        !.totalVotingPower = toString(calculateTotalVotingPower(updatedDelegators)),
        !.totalDelegators = Len(updatedDelegators)]

\* VerifyRunEffect without the test of the mode: discrepancies are fixed in
\* check mode too
VerifyRunEffectAnyMode(fs, loc, c, h, threshold, failedReads) ==
    IF fs.currentState = << >>
    THEN [files |-> releaseSyncLock(fs), loc |-> Returned(loc, "no_state")]
    ELSE IF fs.metadata = << >>
    THEN [files |-> releaseSyncLock(fs), loc |-> Returned(loc, "no_metadata")]
    ELSE LET currentState == fs.currentState[1]
             metadata == fs.metadata[1]
             result == verifyAllDelegatorBalances(c, DelegateAddress, currentState.delegators,
                                                  threshold, h, failedReads)
             updatedDelegators == applyVerificationFixes(currentState.delegators,
                                                         result.discrepancies)
         IN  IF Len(result.discrepancies) > 0
             THEN [files |-> [fs EXCEPT !.currentState =
                                 <<[asOfBlock |-> result.verifiedAtBlock,
                                    delegators |-> updatedDelegators]>>],
                   loc |-> [loc EXCEPT
                       !.pc = "verify_store_meta",
                       !.pendingMetadata = <<FixMetadata(metadata, updatedDelegators)>>,
                       !.entriesToAdd = <<FixTimelineEntry(result.verifiedAtBlock,
                                                           updatedDelegators)>>]]
             ELSE [files |-> releaseSyncLock(fs), loc |-> Returned(loc, "completed")]

\* from getCurrentState() to the first store write or the release
VerifyRunEffect(fs, loc, c, h, threshold, failedReads) ==
    IF fs.currentState = << >>
    THEN [files |-> releaseSyncLock(fs), loc |-> Returned(loc, "no_state")]
    ELSE IF fs.metadata = << >>
    THEN [files |-> releaseSyncLock(fs), loc |-> Returned(loc, "no_metadata")]
    ELSE LET currentState == fs.currentState[1]
             metadata == fs.metadata[1]
             result == verifyAllDelegatorBalances(c, DelegateAddress, currentState.delegators,
                                                  threshold, h, failedReads)
             updatedDelegators == applyVerificationFixes(currentState.delegators,
                                                         result.discrepancies)
         IN  IF loc.mode = "fix" /\ Len(result.discrepancies) > 0
             THEN [files |-> [fs EXCEPT !.currentState =
                                 <<[asOfBlock |-> result.verifiedAtBlock,
                                    delegators |-> updatedDelegators]>>],
                   loc |-> [loc EXCEPT
                       !.pc = "verify_store_meta",
                       !.pendingMetadata = <<FixMetadata(metadata, updatedDelegators)>>,
                       !.entriesToAdd = <<FixTimelineEntry(result.verifiedAtBlock,
                                                           updatedDelegators)>>]]
             ELSE [files |-> releaseSyncLock(fs), loc |-> Returned(loc, "completed")]

VerifyStoreMetaEffect(fs, loc) ==
    [files |-> [fs EXCEPT !.metadata = loc.pendingMetadata],
     loc |-> [loc EXCEPT !.pendingMetadata = << >>, !.pc = "append_part",
                         !.ret = "verify_release"]]

VerifyReleaseEffect(fs, loc) ==
    [files |-> releaseSyncLock(fs), loc |-> Returned(loc, "completed")]

VerifyCatchEffect(fs, loc) ==
    [files |-> releaseSyncLock(fs), loc |-> Returned(loc, "error")]

(***************************************************************************)
(* Cleanup: truncateTimelineAfterBlock (storage.ts) behind the cleanup     *)
(* route, which takes no lock                                              *)
(***************************************************************************)
\* from getTimelineIndex() to the trim of the last kept partition
TruncateBeginEffect(fs, loc, maxBlock) ==
    IF fs.index = << >> \/ Len(fs.index[1].partitions) = 0
    THEN [files |-> fs, loc |-> [Idle EXCEPT !.op = "truncate", !.outcome = "completed",
                                             !.maxBlock = maxBlock]]
    ELSE
    LET index == fs.index[1]
        keep0 == SelectSeq(index.partitions, LAMBDA p : ~(p.startBlock > maxBlock))
        delete0 == SelectSeq(index.partitions, LAMBDA p : p.startBlock > maxBlock)
        n == Len(keep0)
        lastPartition == keep0[n]
        trims == n > 0 /\ lastPartition.endBlock > maxBlock
                 /\ PartitionExists(fs, lastPartition.id)
        kept == SelectSeq(PartitionEntries(fs, lastPartition.id),
                          LAMBDA e : e.blockNumber <= maxBlock)
        keep == IF ~trims THEN keep0
                ELSE IF Len(kept) > 0
                THEN [keep0 EXCEPT ![n] = [lastPartition EXCEPT
                                              !.entryCount = Len(kept),
                                              !.endBlock = kept[Len(kept)].blockNumber]]
                ELSE SubSeq(keep0, 1, n - 1)
        delete == IF trims /\ Len(kept) = 0 THEN Append(delete0, lastPartition) ELSE delete0
    IN  [files |-> IF trims /\ Len(kept) > 0
                   THEN [fs EXCEPT !.partitions = MapSet(@, lastPartition.id, kept)]
                   ELSE fs,
         loc |-> [Idle EXCEPT !.op = "truncate", !.maxBlock = maxBlock,
                              !.index = <<[index EXCEPT !.partitions = keep]>>,
                              !.partitionsToDelete = delete,
                              !.pc = IF Len(delete) > 0 THEN "truncate_delete"
                                     ELSE "truncate_index"]]

\* deleteLocalFile of one orphaned partition
TruncateDeleteEffect(fs, loc) ==
    LET partition == loc.partitionsToDelete[1]
        rest == Tail(loc.partitionsToDelete)
    IN  [files |-> [fs EXCEPT !.partitions = MapDelete(@, partition.id)],
         loc |-> [loc EXCEPT !.partitionsToDelete = rest,
                             !.pc = IF Len(rest) > 0 THEN "truncate_delete"
                                    ELSE "truncate_index"]]

TruncateIndexEffect(fs, loc) ==
    LET index == [loc.index[1] EXCEPT !.totalEntries = SumEntryCounts(loc.index[1].partitions)]
    IN  [files |-> [fs EXCEPT !.index = <<index>>],
         loc |-> [loc EXCEPT !.index = <<index>>, !.pc = "truncate_meta"]]

TruncateMetaEffect(fs, loc) ==
    [files |-> IF fs.metadata = << >> THEN fs
               ELSE [fs EXCEPT !.metadata =
                        <<[fs.metadata[1] EXCEPT
                              !.lastSyncedBlock = loc.maxBlock,
                              !.totalTimelineEntries = loc.index[1].totalEntries,
                              !.timelinePartitions = Len(loc.index[1].partitions)]>>],
     loc |-> [loc EXCEPT !.pc = "truncate_state"]]

TruncateStateEffect(fs, loc) ==
    [files |-> IF fs.currentState = << >> THEN fs
               ELSE [fs EXCEPT !.currentState =
                        <<[fs.currentState[1] EXCEPT !.asOfBlock = loc.maxBlock]>>],
     loc |-> Returned(loc, "completed")]

(***************************************************************************)
(* Background sync: processEvents and POST of the background route.  The   *)
(* route fetches delegation events only, builds one entry per event and    *)
(* saves once, after the last chunk.                                       *)
(***************************************************************************)
START_BLOCK == 1
backgroundChunkSize == 1

\* the entry pushed after an event that is not skipped
BackgroundEntryOf(event, delegators) ==
    [blockNumber |-> event.blockNumber,
     totalVotingPower |-> toString(SumBigInt(delegators)),
     delegators |-> ToStringMap(delegators)]

\* the loop of the background processEvents; acc = [delegators, timeline]
RECURSIVE BackgroundEventLoop(_, _, _)
BackgroundEventLoop(events, delegateAddress, acc) ==
    IF Len(events) = 0 THEN acc
    ELSE LET event == events[1]
             delegateAddrLower == toLowerCase(delegateAddress)
             fromLower == toLowerCase(event.from)
             toLower == toLowerCase(event.to)
             delegators == acc.delegators
             delegatorAddr == toLowerCase(event.delegator)
             matched == FirstWithBalance(delegators, event.previousBalance)
             \* [delegators, push]: the map after the event, and whether the
             \* iteration reaches the push of a timeline entry
             step ==
               IF event.eventType = "DELEGATE_CHANGED"
               THEN [push |-> TRUE,
                     delegators |->
                       IF toLower = delegateAddrLower
                       THEN IF event.newBalance > 0
                            THEN MapSet(delegators, fromLower, event.newBalance)
                            ELSE MapDelete(delegators, fromLower)
                       ELSE IF fromLower = delegateAddrLower
                       THEN IF matched = "-" THEN delegators
                            ELSE MapDelete(delegators, matched)
                       ELSE MapDelete(delegators, fromLower)]
               ELSE IF MapHas(delegators, delegatorAddr)
               THEN [push |-> MapGet(delegators, delegatorAddr) # event.newBalance,
                     delegators |->
                       IF event.newBalance > 0
                       THEN MapSet(delegators, delegatorAddr, event.newBalance)
                       ELSE MapDelete(delegators, delegatorAddr)]
               ELSE [push |-> FALSE, delegators |-> delegators]
         IN  BackgroundEventLoop(Tail(events), delegateAddress,
                [delegators |-> step.delegators,
                 timeline |-> IF step.push
                              THEN Append(acc.timeline,
                                          BackgroundEntryOf(event, step.delegators))
                              ELSE acc.timeline])

backgroundProcessEvents(events, delegateAddress, initialDelegators) ==
    LET r == BackgroundEventLoop(events, delegateAddress,
                                 [delegators |-> initialDelegators, timeline |-> << >>])
    IN  [timeline |-> r.timeline, currentDelegators |-> ToStringMap(r.delegators)]

\* the update of delegatorsForTracking after the fetch of a chunk
RECURSIVE TrackForBackground(_, _, _)
TrackForBackground(delegatorsForTracking, events, delegateAddress) ==
    IF Len(events) = 0 THEN delegatorsForTracking
    ELSE LET event == events[1]
             delegator == toLowerCase(event.from)
             next ==
               IF event.eventType # "DELEGATE_CHANGED" THEN delegatorsForTracking
               ELSE IF toLowerCase(event.to) = toLowerCase(delegateAddress)
               THEN IF \E i \in 1..Len(delegatorsForTracking) :
                          delegatorsForTracking[i] = delegator
                    THEN delegatorsForTracking
                    ELSE Append(delegatorsForTracking, delegator)
               ELSE IF toLowerCase(event.from) = toLowerCase(delegateAddress)
               THEN SelectSeq(delegatorsForTracking, LAMBDA addr : addr # delegator)
               ELSE delegatorsForTracking
         IN  TrackForBackground(next, Tail(events), delegateAddress)

\* from getMetadata() to the start of the chunk loop
BackgroundInitEffect(fs, loc, h) ==
    LET metadata == fs.metadata
        currentState == fs.currentState
        fromBlock == IF metadata # << >> THEN metadata[1].lastSyncedBlock + 1 ELSE START_BLOCK
        toBlock == h
    IN  IF fromBlock > toBlock
        THEN [files |-> releaseSyncLock(fs), loc |-> Returned(loc, "up_to_date")]
        ELSE [files |-> fs,
              loc |-> [loc EXCEPT
                  !.pc = "background_chunk",
                  !.fromBlock = fromBlock, !.toBlock = toBlock, !.currentFrom = fromBlock,
                  !.delegatorsForTracking =
                      IF currentState # << >> THEN MapKeys(currentState[1].delegators)
                      ELSE << >>,
                  !.checkpointStartState =
                      IF currentState # << >> THEN ToBigIntMap(currentState[1].delegators)
                      ELSE << >>,
                  !.totalTimelineEntries =
                      IF metadata # << >> THEN metadata[1].totalTimelineEntries ELSE 0]]

\* one iteration of the chunk loop: the fetch and updateSyncProgress
BackgroundChunkEffect(fs, loc, c, logsOk) ==
    LET currentFrom == loc.currentFrom
        currentTo == IF currentFrom + backgroundChunkSize > loc.toBlock THEN loc.toBlock
                     ELSE currentFrom + backgroundChunkSize
        events == fetchDelegationEvents(c, DelegateAddress, currentFrom, currentTo,
                                        loc.delegatorsForTracking, logsOk)
        totalEventsProcessed == loc.totalEventsProcessed + Len(events)
    IN  [files |-> [fs EXCEPT !.progress =
              <<[isActive |-> TRUE, currentBlock |-> currentFrom,
                 targetBlock |-> loc.toBlock, startBlock |-> loc.fromBlock,
                 eventsProcessed |-> totalEventsProcessed]>>],
         loc |-> [loc EXCEPT
              !.delegatorsForTracking =
                  TrackForBackground(loc.delegatorsForTracking, events, DelegateAddress),
              !.accumulatedEvents = loc.accumulatedEvents \o events,
              !.totalEventsProcessed = totalEventsProcessed,
              !.currentFrom = currentTo + 1,
              !.pc = IF currentTo + 1 <= loc.toBlock THEN "background_chunk"
                     ELSE "background_save_meta"]]

\* processEvents over all fetched events, and storeMetadata
BackgroundSaveMetaEffect(fs, loc) ==
    LET result == backgroundProcessEvents(loc.accumulatedEvents, DelegateAddress,
                                          loc.checkpointStartState)
        totalTimelineEntries == loc.totalTimelineEntries + Len(result.timeline)
    IN  [files |-> [fs EXCEPT !.metadata =
              <<CheckpointMetadata(loc.toBlock, result.currentDelegators,
                                   totalTimelineEntries)>>],
         loc |-> [loc EXCEPT
              !.pc = "background_save_state",
              !.pendingState = <<[asOfBlock |-> loc.toBlock,
                                  delegators |-> result.currentDelegators]>>,
              !.entriesToAdd = result.timeline]]

BackgroundSaveStateEffect(fs, loc) ==
    [files |-> [fs EXCEPT !.currentState = loc.pendingState],
     loc |-> [loc EXCEPT
         !.pendingState = << >>,
         !.ret = IF Len(loc.entriesToAdd) > 0 THEN "background_finish" ELSE "-",
         !.pc = IF Len(loc.entriesToAdd) > 0 THEN "append_part" ELSE "background_finish"]]

\* clearSyncProgress and releaseSyncLock after the save
BackgroundFinishEffect(fs, loc) ==
    [files |-> releaseSyncLock(clearSyncProgress(fs)), loc |-> Returned(loc, "completed")]

\* the catch block of the background route
BackgroundCatchEffect(fs, loc) ==
    [files |-> releaseSyncLock(clearSyncProgress(fs)), loc |-> Returned(loc, "error")]

(***************************************************************************)
(* Actions                                                                 *)
(***************************************************************************)
Apply(p, r) ==
    /\ files' = r.files
    /\ proc' = [proc EXCEPT ![p] = r.loc]

Thresholds == {0, 1}

\* POST /api/sync arrives: acquireSyncLock up to checkSyncLock
StartSync(p) ==
    /\ proc[p].pc = "idle"
    /\ opsLeft > 0
    /\ Apply(p, AcquireCheckEffect(files, proc[p], now, "sync", "-"))
    /\ opsLeft' = opsLeft - 1
    /\ UNCHANGED <<call, chain, head, endBlock, now, faultsLeft>>

\* POST /api/verify arrives with body.mode: acquireSyncLock up to checkSyncLock
StartVerify(p) ==
    /\ proc[p].pc = "idle"
    /\ opsLeft > 0
    /\ \E mode \in {"check", "fix"} :
          Apply(p, AcquireCheckEffect(files, proc[p], now, "verify", mode))
    /\ opsLeft' = opsLeft - 1
    /\ UNCHANGED <<call, chain, head, endBlock, now, faultsLeft>>

AcquireWrite(p) ==
    /\ proc[p].pc = "acquire_write"
    /\ Apply(p, AcquireWriteEffect(files, proc[p], now, p))
    /\ UNCHANGED <<call, chain, head, endBlock, now, opsLeft, faultsLeft>>

SyncInit(p) ==
    /\ proc[p].pc = "sync_init"
    /\ Apply(p, SyncInitEffect(files, proc[p], head, endBlock))
    /\ UNCHANGED <<call, chain, head, endBlock, now, opsLeft, faultsLeft>>

SyncChunk(p) ==
    /\ proc[p].pc = "sync_chunk"
    /\ Apply(p, SyncChunkEffect(files, proc[p], chain, TRUE))
    /\ UNCHANGED <<call, chain, head, endBlock, now, opsLeft, faultsLeft>>

SyncSaveState(p) ==
    /\ proc[p].pc = "sync_save_state"
    /\ Apply(p, SyncSaveStateEffect(files, proc[p]))
    /\ UNCHANGED <<call, chain, head, endBlock, now, opsLeft, faultsLeft>>

AppendPart(p) ==
    /\ proc[p].pc = "append_part"
    /\ Apply(p, AppendPartEffect(files, proc[p]))
    /\ UNCHANGED <<call, chain, head, endBlock, now, opsLeft, faultsLeft>>

AppendIndex(p) ==
    /\ proc[p].pc = "append_index"
    /\ Apply(p, AppendIndexEffect(files, proc[p]))
    /\ UNCHANGED <<call, chain, head, endBlock, now, opsLeft, faultsLeft>>

SyncProgress(p) ==
    /\ proc[p].pc = "sync_progress"
    /\ Apply(p, ProgressEffect(files, proc[p]))
    /\ UNCHANGED <<call, chain, head, endBlock, now, opsLeft, faultsLeft>>

SyncFinish(p) ==
    /\ proc[p].pc = "sync_finish"
    /\ Apply(p, SyncFinishEffect(files, proc[p]))
    /\ UNCHANGED <<call, chain, head, endBlock, now, opsLeft, faultsLeft>>

\* POST /api/sync/background arrives: acquireSyncLock up to checkSyncLock
StartBackground(p) ==
    /\ proc[p].pc = "idle"
    /\ opsLeft > 0
    /\ Apply(p, AcquireCheckEffect(files, proc[p], now, "background", "-"))
    /\ opsLeft' = opsLeft - 1
    /\ UNCHANGED <<call, chain, head, endBlock, now, faultsLeft>>

BackgroundInit(p) ==
    /\ proc[p].pc = "background_init"
    /\ Apply(p, BackgroundInitEffect(files, proc[p], head))
    /\ UNCHANGED <<call, chain, head, endBlock, now, opsLeft, faultsLeft>>

BackgroundChunk(p) ==
    /\ proc[p].pc = "background_chunk"
    /\ Apply(p, BackgroundChunkEffect(files, proc[p], chain, TRUE))
    /\ UNCHANGED <<call, chain, head, endBlock, now, opsLeft, faultsLeft>>

BackgroundSaveMeta(p) ==
    /\ proc[p].pc = "background_save_meta"
    /\ Apply(p, BackgroundSaveMetaEffect(files, proc[p]))
    /\ UNCHANGED <<call, chain, head, endBlock, now, opsLeft, faultsLeft>>

BackgroundSaveState(p) ==
    /\ proc[p].pc = "background_save_state"
    /\ Apply(p, BackgroundSaveStateEffect(files, proc[p]))
    /\ UNCHANGED <<call, chain, head, endBlock, now, opsLeft, faultsLeft>>

BackgroundFinish(p) ==
    /\ proc[p].pc = "background_finish"
    /\ Apply(p, BackgroundFinishEffect(files, proc[p]))
    /\ UNCHANGED <<call, chain, head, endBlock, now, opsLeft, faultsLeft>>

\* the balance reads of the verifier succeed or fail one by one
VerifyRun(p) ==
    /\ proc[p].pc = "verify_run"
    /\ \E threshold \in Thresholds :
       \E failedReads \in SUBSET (IF files.currentState = << >> THEN {}
                                  ELSE MapKeySet(files.currentState[1].delegators)) :
          Apply(p, VerifyRunEffect(files, proc[p], chain, head, threshold, failedReads))
    /\ UNCHANGED <<call, chain, head, endBlock, now, opsLeft, faultsLeft>>

VerifyStoreMeta(p) ==
    /\ proc[p].pc = "verify_store_meta"
    /\ Apply(p, VerifyStoreMetaEffect(files, proc[p]))
    /\ UNCHANGED <<call, chain, head, endBlock, now, opsLeft, faultsLeft>>

VerifyRelease(p) ==
    /\ proc[p].pc = "verify_release"
    /\ Apply(p, VerifyReleaseEffect(files, proc[p]))
    /\ UNCHANGED <<call, chain, head, endBlock, now, opsLeft, faultsLeft>>

\* POST /api/cleanup arrives: maxBlock is config.endBlock, the head for "latest"
TruncateBegin(p) ==
    /\ proc[p].pc = "idle"
    /\ opsLeft > 0
    /\ Apply(p, TruncateBeginEffect(files, proc[p], resolveEndBlock(endBlock, head)))
    /\ opsLeft' = opsLeft - 1
    /\ UNCHANGED <<call, chain, head, endBlock, now, faultsLeft>>

TruncateDelete(p) ==
    /\ proc[p].pc = "truncate_delete"
    /\ Apply(p, TruncateDeleteEffect(files, proc[p]))
    /\ UNCHANGED <<call, chain, head, endBlock, now, opsLeft, faultsLeft>>

TruncateIndex(p) ==
    /\ proc[p].pc = "truncate_index"
    /\ Apply(p, TruncateIndexEffect(files, proc[p]))
    /\ UNCHANGED <<call, chain, head, endBlock, now, opsLeft, faultsLeft>>

TruncateMeta(p) ==
    /\ proc[p].pc = "truncate_meta"
    /\ Apply(p, TruncateMetaEffect(files, proc[p]))
    /\ UNCHANGED <<call, chain, head, endBlock, now, opsLeft, faultsLeft>>

TruncateState(p) ==
    /\ proc[p].pc = "truncate_state"
    /\ Apply(p, TruncateStateEffect(files, proc[p]))
    /\ UNCHANGED <<call, chain, head, endBlock, now, opsLeft, faultsLeft>>

\* the places inside the try block of each handler
SyncTryPcs == {"sync_init", "sync_chunk", "sync_save_state", "sync_progress",
               "append_part", "append_index"}
VerifyTryPcs == {"verify_run", "verify_store_meta", "append_part", "append_index"}
TruncatePcs == {"truncate_delete", "truncate_index", "truncate_meta", "truncate_state"}
BackgroundTryPcs == {"background_init", "background_chunk", "background_save_meta",
                     "background_save_state", "append_part", "append_index"}

\* an awaited call of the sync handler throws: its catch block runs
SyncThrow(p) ==
    /\ faultsLeft > 0
    /\ proc[p].op = "sync" /\ proc[p].pc \in SyncTryPcs
    /\ Apply(p, SyncCatchEffect(files, proc[p]))
    /\ faultsLeft' = faultsLeft - 1
    /\ UNCHANGED <<call, chain, head, endBlock, now, opsLeft>>

\* an awaited call of the background handler throws: its catch block runs
BackgroundThrow(p) ==
    /\ faultsLeft > 0
    /\ proc[p].op = "background" /\ proc[p].pc \in BackgroundTryPcs
    /\ Apply(p, BackgroundCatchEffect(files, proc[p]))
    /\ faultsLeft' = faultsLeft - 1
    /\ UNCHANGED <<call, chain, head, endBlock, now, opsLeft>>

\* an awaited call of the verify handler throws: its catch block runs
VerifyThrow(p) ==
    /\ faultsLeft > 0
    /\ proc[p].op = "verify" /\ proc[p].pc \in VerifyTryPcs
    /\ Apply(p, VerifyCatchEffect(files, proc[p]))
    /\ faultsLeft' = faultsLeft - 1
    /\ UNCHANGED <<call, chain, head, endBlock, now, opsLeft>>

\* an awaited call of truncateTimelineAfterBlock throws: the cleanup handler
\* answers 500 and nothing more is written
TruncateThrow(p) ==
    /\ faultsLeft > 0
    /\ proc[p].op = "truncate" /\ proc[p].pc \in TruncatePcs
    /\ Apply(p, [files |-> files, loc |-> Returned(proc[p], "error")])
    /\ faultsLeft' = faultsLeft - 1
    /\ UNCHANGED <<call, chain, head, endBlock, now, opsLeft>>

\* the process dies: nothing of the handler runs any more
Crash(p) ==
    /\ faultsLeft > 0
    /\ proc[p].pc # "idle"
    /\ proc' = [proc EXCEPT ![p] = Returned(proc[p], "crashed")]
    /\ faultsLeft' = faultsLeft - 1
    /\ UNCHANGED <<call, chain, head, endBlock, now, files, opsLeft>>

\* time passes while a lock record exists: up to the timeout, then past it
Tick ==
    /\ files.lock # << >>
    /\ \/ /\ now - files.lock[1].startedAt = 0
          /\ now' = now + LOCK_TIMEOUT_MS
       \/ /\ now - files.lock[1].startedAt = LOCK_TIMEOUT_MS
          /\ now' = now + 1
    /\ UNCHANGED <<call, chain, head, endBlock, files, proc, opsLeft, faultsLeft>>

AllIdle == \A p \in Procs : proc[p].pc = "idle"

\* A block holding transaction op is mined.  A running handler reads the
\* head once, in the step that follows its lock write, and then only blocks
\* up to that head, so mining between requests yields every outcome.
Mine(op) ==
    /\ AllIdle
    /\ head < MaxBlock
    /\ chain' = Append(chain, op)
    /\ head' = head + 1
    /\ UNCHANGED <<call, endBlock, now, files, proc, opsLeft, faultsLeft>>

\* the operator edits config.endBlock between requests
EditConfig ==
    /\ AllIdle
    /\ \E e \in {<< >>} \cup {<<n>> : n \in 1..MaxBlock} :
          e # endBlock /\ endBlock' = e
    /\ UNCHANGED <<call, chain, head, now, files, proc, opsLeft, faultsLeft>>

D(h, t) == [k |-> "del", who |-> h, to |-> t, bal |-> 0]
X(h, v) == [k |-> "xfer", who |-> h, to |-> "-", bal |-> v]

\* the example history: A delegates to the tracked delegate, A's balance
\* drops by a transfer, A delegates away
ExampleChain == <<D("A", TrackedDelegate), X("A", 1), D("A", OtherDelegate)>>

ExampleOp(n) == IF n <= Len(ExampleChain) THEN ExampleChain[n] ELSE NoTx

(***************************************************************************)
(* Specification Spec: two request handlers run concurrently on the        *)
(* example history; sync, background sync and verify requests, thrown      *)
(* errors, crashes and the lock timeout                                    *)
(***************************************************************************)
MaxOps == 2
MaxFaults == 1

Init ==
    /\ chain = <<ExampleOp(1)>>
    /\ head = 1
    /\ endBlock = << >>
    /\ now = 0
    /\ files = NoFiles
    /\ proc = [p \in Procs |-> Idle]
    /\ opsLeft = MaxOps
    /\ faultsLeft = MaxFaults
    /\ call = NoCall

MineExample == Mine(ExampleOp(head + 1))

Next ==
    \/ \E p \in Procs : StartSync(p)
    \/ \E p \in Procs : StartBackground(p)
    \/ \E p \in Procs : StartVerify(p)
    \/ \E p \in Procs : AcquireWrite(p)
    \/ \E p \in Procs : SyncInit(p)
    \/ \E p \in Procs : SyncChunk(p)
    \/ \E p \in Procs : SyncSaveState(p)
    \/ \E p \in Procs : AppendPart(p)
    \/ \E p \in Procs : AppendIndex(p)
    \/ \E p \in Procs : SyncProgress(p)
    \/ \E p \in Procs : SyncFinish(p)
    \/ \E p \in Procs : BackgroundInit(p)
    \/ \E p \in Procs : BackgroundChunk(p)
    \/ \E p \in Procs : BackgroundSaveMeta(p)
    \/ \E p \in Procs : BackgroundSaveState(p)
    \/ \E p \in Procs : BackgroundFinish(p)
    \/ \E p \in Procs : VerifyRun(p)
    \/ \E p \in Procs : VerifyStoreMeta(p)
    \/ \E p \in Procs : VerifyRelease(p)
    \/ \E p \in Procs : SyncThrow(p)
    \/ \E p \in Procs : BackgroundThrow(p)
    \/ \E p \in Procs : VerifyThrow(p)
    \/ \E p \in Procs : Crash(p)
    \/ Tick
    \/ MineExample

Spec == Init /\ [][Next]_vars

(***************************************************************************)
(* Specification LedgerSpec: one request at a time, each running to its    *)
(* end: sync, background sync and verify requests over every history of    *)
(* the token                                                               *)
(***************************************************************************)
MaxRequests == 3

LedgerInit ==
    /\ chain \in {<<op>> : op \in ChainOps}
    /\ head = 1
    /\ endBlock = << >>
    /\ now = 0
    /\ files = NoFiles
    /\ proc = [p \in Procs |-> Idle]
    /\ opsLeft = MaxRequests
    /\ faultsLeft = 0
    /\ call = NoCall

MineAny == \E op \in ChainOps : Mine(op)

LedgerNext ==
    \/ StartSync(1)
    \/ StartBackground(1)
    \/ StartVerify(1)
    \/ AcquireWrite(1)
    \/ SyncInit(1)
    \/ SyncChunk(1)
    \/ SyncSaveState(1)
    \/ AppendPart(1)
    \/ AppendIndex(1)
    \/ SyncProgress(1)
    \/ SyncFinish(1)
    \/ BackgroundInit(1)
    \/ BackgroundChunk(1)
    \/ BackgroundSaveMeta(1)
    \/ BackgroundSaveState(1)
    \/ BackgroundFinish(1)
    \/ VerifyRun(1)
    \/ VerifyStoreMeta(1)
    \/ VerifyRelease(1)
    \/ MineAny

LedgerSpec == LedgerInit /\ [][LedgerNext]_vars

(***************************************************************************)
(* Specification SyncSpec: sync requests only, one at a time, over every   *)
(* history of the token; a block may be mined between two runs             *)
(***************************************************************************)
SyncNext ==
    \/ StartSync(1)
    \/ AcquireWrite(1)
    \/ SyncInit(1)
    \/ SyncChunk(1)
    \/ SyncSaveState(1)
    \/ AppendPart(1)
    \/ AppendIndex(1)
    \/ SyncProgress(1)
    \/ SyncFinish(1)
    \/ MineAny

SyncSpec == LedgerInit /\ [][SyncNext]_vars

(***************************************************************************)
(* Specification VerifySpec: sync and verify requests, one at a time, over *)
(* every history of the token; a block may be mined between two requests   *)
(***************************************************************************)
VerifyNext ==
    \/ StartSync(1)
    \/ StartVerify(1)
    \/ AcquireWrite(1)
    \/ SyncInit(1)
    \/ SyncChunk(1)
    \/ SyncSaveState(1)
    \/ AppendPart(1)
    \/ AppendIndex(1)
    \/ SyncProgress(1)
    \/ SyncFinish(1)
    \/ VerifyRun(1)
    \/ VerifyStoreMeta(1)
    \/ VerifyRelease(1)
    \/ MineAny

VerifySpec == LedgerInit /\ [][VerifyNext]_vars

(***************************************************************************)
(* Specification CleanupSpec: sync, verify and cleanup requests, one at a  *)
(* time, with thrown errors; config.endBlock is edited between requests.   *)
(* The history is drawn block by block from two histories.                 *)
(***************************************************************************)
\* A and B delegate to the tracked delegate, then A's balance drops
TwoDelegatorsChain == <<D("A", TrackedDelegate), D("B", TrackedDelegate), X("A", 1)>>

\* nothing happens in block 1, then A delegates and A's balance drops
QuietStartChain == <<NoTx, D("A", TrackedDelegate), X("A", 1)>>

CleanupOps(n) ==
    {IF n <= Len(TwoDelegatorsChain) THEN TwoDelegatorsChain[n] ELSE NoTx,
     IF n <= Len(QuietStartChain) THEN QuietStartChain[n] ELSE NoTx}

CleanupInit ==
    /\ chain \in {<<op>> : op \in CleanupOps(1)}
    /\ head = 1
    /\ endBlock = << >>
    /\ now = 0
    /\ files = NoFiles
    /\ proc = [p \in Procs |-> Idle]
    /\ opsLeft = MaxRequests
    /\ faultsLeft = MaxFaults
    /\ call = NoCall

MineCleanup == \E op \in CleanupOps(head + 1) : Mine(op)

CleanupNext ==
    \/ StartSync(1)
    \/ StartVerify(1)
    \/ AcquireWrite(1)
    \/ SyncInit(1)
    \/ SyncChunk(1)
    \/ SyncSaveState(1)
    \/ AppendPart(1)
    \/ AppendIndex(1)
    \/ SyncProgress(1)
    \/ SyncFinish(1)
    \/ VerifyRun(1)
    \/ VerifyStoreMeta(1)
    \/ VerifyRelease(1)
    \/ TruncateBegin(1)
    \/ TruncateDelete(1)
    \/ TruncateIndex(1)
    \/ TruncateMeta(1)
    \/ TruncateState(1)
    \/ SyncThrow(1)
    \/ VerifyThrow(1)
    \/ TruncateThrow(1)
    \/ MineCleanup
    \/ EditConfig

CleanupSpec == CleanupInit /\ [][CleanupNext]_vars

(***************************************************************************)
(* Specification CrashSpec: sync requests on a fixed head; the process may *)
(* die at any step, the lock it leaves goes stale, and a later run resumes *)
(***************************************************************************)
CrashBlocks == 5

CrashOps == {NoTx, D("A", TrackedDelegate), X("A", 1), D("A", OtherDelegate)}

CrashInit ==
    /\ chain \in [1..CrashBlocks -> CrashOps]
    /\ head = CrashBlocks
    /\ endBlock = << >>
    /\ now = 0
    /\ files = NoFiles
    /\ proc = [p \in Procs |-> Idle]
    /\ opsLeft = MaxOps
    /\ faultsLeft = MaxFaults
    /\ call = NoCall

CrashNext ==
    \/ StartSync(1)
    \/ AcquireWrite(1)
    \/ SyncInit(1)
    \/ SyncChunk(1)
    \/ SyncSaveState(1)
    \/ AppendPart(1)
    \/ AppendIndex(1)
    \/ SyncProgress(1)
    \/ SyncFinish(1)
    \/ Crash(1)
    \/ Tick

CrashSpec == CrashInit /\ [][CrashNext]_vars

(***************************************************************************)
(* Specification TerminationSpec: sync requests one at a time on the       *)
(* histories of CleanupSpec, with thrown errors and edits of               *)
(* config.endBlock.  Every awaited call of a running handler returns or    *)
(* throws: the handler's next step is weakly fair.                         *)
(***************************************************************************)
\* the next step of the sync handler between its lock write and its return
SyncReturnsOrThrows(p) ==
    \/ SyncInit(p)
    \/ SyncChunk(p)
    \/ SyncSaveState(p)
    \/ AppendPart(p)
    \/ AppendIndex(p)
    \/ SyncProgress(p)
    \/ SyncFinish(p)
    \/ SyncThrow(p)

TerminationNext ==
    \/ StartSync(1)
    \/ AcquireWrite(1)
    \/ SyncInit(1)
    \/ SyncChunk(1)
    \/ SyncSaveState(1)
    \/ AppendPart(1)
    \/ AppendIndex(1)
    \/ SyncProgress(1)
    \/ SyncFinish(1)
    \/ SyncThrow(1)
    \/ MineCleanup
    \/ EditConfig

\* handler p is between the lock write of a sync run and its return:
\* exactly the states in which SyncReturnsOrThrows(p) is enabled
SyncRunning(p) ==
    /\ proc[p].op = "sync"
    /\ proc[p].pc \in SyncTryPcs \cup {"sync_finish"}

\* weak fairness of SyncReturnsOrThrows(p), its enabling condition written
\* out as SyncRunning(p)
SyncCallsReturn(p) ==
    []<>(~SyncRunning(p)) \/ []<><<SyncReturnsOrThrows(p)>>_vars

TerminationSpec ==
    CleanupInit /\ [][TerminationNext]_vars /\ SyncCallsReturn(1)

(***************************************************************************)
(* Specification FetchSpec: the sync requests of SyncSpec, where the log   *)
(* fetch of a chunk may fail after all its retries                         *)
(***************************************************************************)
\* the chunk step in which one of the getLogs calls of fetchDelegationEvents
\* has failed after all retries: the fetch returns no event
SyncChunkLogsFail(p) ==
    /\ faultsLeft > 0
    /\ proc[p].pc = "sync_chunk"
    /\ Apply(p, SyncChunkEffect(files, proc[p], chain, FALSE))
    /\ faultsLeft' = faultsLeft - 1
    /\ UNCHANGED <<call, chain, head, endBlock, now, opsLeft>>

FetchInit ==
    /\ chain \in {<<op>> : op \in ChainOps}
    /\ head = 1
    /\ endBlock = << >>
    /\ now = 0
    /\ files = NoFiles
    /\ proc = [p \in Procs |-> Idle]
    /\ opsLeft = MaxRequests
    /\ faultsLeft = MaxFaults
    /\ call = NoCall

FetchNext ==
    \/ StartSync(1)
    \/ AcquireWrite(1)
    \/ SyncInit(1)
    \/ SyncChunk(1)
    \/ SyncChunkLogsFail(1)
    \/ SyncSaveState(1)
    \/ AppendPart(1)
    \/ AppendIndex(1)
    \/ SyncProgress(1)
    \/ SyncFinish(1)
    \/ MineAny

FetchSpec == FetchInit /\ [][FetchNext]_vars

(***************************************************************************)
(* Specification CheckpointSpec: sync requests, one at a time and without  *)
(* failures, on the histories of CrashSpec at their fixed head; the        *)
(* operator may edit config.endBlock between two requests                  *)
(***************************************************************************)
CheckpointNext ==
    \/ StartSync(1)
    \/ AcquireWrite(1)
    \/ SyncInit(1)
    \/ SyncChunk(1)
    \/ SyncSaveState(1)
    \/ AppendPart(1)
    \/ AppendIndex(1)
    \/ SyncProgress(1)
    \/ SyncFinish(1)
    \/ EditConfig

CheckpointSpec == CrashInit /\ [][CheckpointNext]_vars

(***************************************************************************)
(* Specification LockSpec: sync requests of one client on the first block  *)
(* of the example history; the process may die at any step, and time       *)
(* passes while its lock record is left behind                             *)
(***************************************************************************)
LockSpec == Init /\ [][CrashNext]_vars

(***************************************************************************)
(* Specification RangeSpec: sync, verify and truncate requests, one at a   *)
(* time and without failures, on histories of RangeBlocks blocks; between  *)
(* two requests a client may read a block range of the timeline through    *)
(* GET /api/data?endpoint=timeline&from=..&to=..                           *)
(***************************************************************************)
RangeBlocks == 4

RangeOps == {D("A", TrackedDelegate), X("A", 1), X("A", 2)}

RangeInit ==
    /\ chain \in {<<op>> : op \in RangeOps}
    /\ head = 1
    /\ endBlock = << >>
    /\ now = 0
    /\ files = NoFiles
    /\ proc = [p \in Procs |-> Idle]
    /\ opsLeft = MaxRequests
    /\ faultsLeft = 0
    /\ call = NoCall

MineRange ==
    /\ AllIdle
    /\ head < RangeBlocks
    /\ \E op \in RangeOps : chain' = Append(chain, op)
    /\ head' = head + 1
    /\ UNCHANGED <<call, endBlock, now, files, proc, opsLeft, faultsLeft>>

\* the timeline endpoint with from and to: await getTimelineRange(fromBlock, toBlock)
DataTimeline(p) ==
    /\ AllIdle
    /\ \E fromBlock \in 1..RangeBlocks, toBlock \in 1..RangeBlocks :
          /\ fromBlock <= toBlock
          /\ call' = [fn |-> "getTimelineRange", args |-> <<fromBlock, toBlock>>,
                      done |-> TRUE,
                      result |-> getTimelineRange(files, fromBlock, toBlock)]
    /\ proc' = [proc EXCEPT ![p] = [Idle EXCEPT !.pc = "data_respond", !.op = "data"]]
    /\ UNCHANGED <<chain, head, endBlock, now, files, opsLeft, faultsLeft>>

\* NextResponse.json(timeline)
DataRespond(p) ==
    /\ proc[p].pc = "data_respond"
    /\ call' = NoCall
    /\ proc' = [proc EXCEPT ![p] = Returned(proc[p], "completed")]
    /\ UNCHANGED <<chain, head, endBlock, now, files, opsLeft, faultsLeft>>

RangeNext ==
    \/ StartSync(1)
    \/ StartVerify(1)
    \/ AcquireWrite(1)
    \/ SyncInit(1)
    \/ SyncChunk(1)
    \/ SyncSaveState(1)
    \/ AppendPart(1)
    \/ AppendIndex(1)
    \/ SyncProgress(1)
    \/ SyncFinish(1)
    \/ VerifyRun(1)
    \/ VerifyStoreMeta(1)
    \/ VerifyRelease(1)
    \/ TruncateBegin(1)
    \/ TruncateDelete(1)
    \/ TruncateIndex(1)
    \/ TruncateMeta(1)
    \/ TruncateState(1)
    \/ DataTimeline(1)
    \/ DataRespond(1)
    \/ MineRange
    \/ EditConfig

RangeSpec == RangeInit /\ [][RangeNext]_vars

(***************************************************************************)
(* Specification OverlapSpec: client 1 posts sync requests while client 2  *)
(* posts verify and cleanup requests, on the histories of CleanupSpec; the *)
(* handlers of the two clients interleave step by step and none fails     *)
(***************************************************************************)
OverlapNext ==
    \/ StartSync(1)
    \/ StartVerify(2)
    \/ TruncateBegin(2)
    \/ \E p \in Procs : AcquireWrite(p)
    \/ SyncInit(1)
    \/ SyncChunk(1)
    \/ SyncSaveState(1)
    \/ \E p \in Procs : AppendPart(p)
    \/ \E p \in Procs : AppendIndex(p)
    \/ SyncProgress(1)
    \/ SyncFinish(1)
    \/ VerifyRun(2)
    \/ VerifyStoreMeta(2)
    \/ VerifyRelease(2)
    \/ TruncateDelete(2)
    \/ TruncateIndex(2)
    \/ TruncateMeta(2)
    \/ TruncateState(2)
    \/ MineCleanup
    \/ EditConfig

OverlapSpec == CleanupInit /\ [][OverlapNext]_vars

(***************************************************************************)
(* Library functions called on their own.  The arguments are drawn in the  *)
(* initial state; the one action of each specification applies the         *)
(* function and keeps its result.                                          *)
(***************************************************************************)
\* the sequences over S of length at most n
SeqsUpTo(S, n) == UNION {[1..m -> S] : m \in 0..n}

Called(fn) == call.fn = fn /\ call.done

Return(result) ==
    /\ ~call.done
    /\ call' = [call EXCEPT !.done = TRUE, !.result = result]
    /\ UNCHANGED <<chain, head, endBlock, now, files, proc, opsLeft, faultsLeft>>

CallInit(fn, Args) ==
    /\ chain = << >>
    /\ head = 0
    /\ endBlock = << >>
    /\ now = 0
    /\ files = NoFiles
    /\ proc = [p \in Procs |-> Idle]
    /\ opsLeft = 0
    /\ faultsLeft = 0
    /\ call \in {[fn |-> fn, args |-> a, done |-> FALSE, result |-> << >>] : a \in Args}

(***************************************************************************)
(* Specification DedupSpec: deduplicateEvents on every pair of log lists   *)
(* of at most MaxLogs logs each, of transactions 1..MaxTx                  *)
(***************************************************************************)
MaxLogs == 2
MaxTx == 2

\* the logs of one event type a getLogs call can return: a transaction lies
\* in one block, here the block of its number
LogsOf(event) ==
    {[event |-> event, transactionHash |-> tx, blockNumber |-> tx, logIndex |-> idx] :
        tx \in 1..MaxTx, idx \in {0, 1}}

DedupInit ==
    CallInit("deduplicateEvents",
             SeqsUpTo(LogsOf("DelegateChanged"), MaxLogs)
                \X SeqsUpTo(LogsOf("DelegateVotesChanged"), MaxLogs))

DedupCall ==
    /\ call.fn = "deduplicateEvents"
    /\ Return(deduplicateEvents(call.args[1], call.args[2]))

DedupNext == DedupCall

DedupSpec == DedupInit /\ [][DedupNext]_vars

(***************************************************************************)
(* Specification BuilderSpec: the two ledger builders (processEvents of    *)
(* the sync route and of the background route) on every sequence of at     *)
(* most MaxEvents events and a few initial mappings                        *)
(***************************************************************************)
MaxEvents == 2

BuilderBlocks == {1, 2}

\* the events the fetchers build: a delegation to the tracked delegate, an
\* undelegation, a balance change of a delegator
BuilderEvents ==
    {[from |-> h, to |-> DelegateAddress, previousBalance |-> 0, newBalance |-> b,
      blockNumber |-> n, timestamp |-> BlockTimestamp(n),
      eventType |-> "DELEGATE_CHANGED", delegator |-> "-"] :
        h \in Holders, b \in Balances, n \in BuilderBlocks}
    \cup {[from |-> DelegateAddress, to |-> OtherDelegate, previousBalance |-> b,
           newBalance |-> 0, blockNumber |-> n, timestamp |-> BlockTimestamp(n),
           eventType |-> "DELEGATE_CHANGED", delegator |-> "-"] :
             b \in Balances, n \in BuilderBlocks}
    \cup {[from |-> toLowerCase(h), to |-> DelegateAddress, previousBalance |-> 0,
           newBalance |-> b, blockNumber |-> n, timestamp |-> BlockTimestamp(n),
           eventType |-> "BALANCE_CHANGED", delegator |-> toLowerCase(h)] :
             h \in Holders, b \in Balances, n \in BuilderBlocks}

BuilderMappings ==
    {<< >>, <<[k |-> "a", v |-> 2]>>, <<[k |-> "a", v |-> 1], [k |-> "b", v |-> 2]>>}

BuilderInit ==
    \E fn \in {"processEvents", "backgroundProcessEvents"} :
        CallInit(fn, SeqsUpTo(BuilderEvents, MaxEvents) \X BuilderMappings)

ProcessEventsCall ==
    /\ call.fn = "processEvents"
    /\ Return(processEvents(call.args[1], DelegateAddress, call.args[2]))

BackgroundProcessEventsCall ==
    /\ call.fn = "backgroundProcessEvents"
    /\ Return(backgroundProcessEvents(call.args[1], DelegateAddress, call.args[2]))

BuilderNext == ProcessEventsCall \/ BackgroundProcessEventsCall

BuilderSpec == BuilderInit /\ [][BuilderNext]_vars

(***************************************************************************)
(* Specification VerifierSpec: verifyAllDelegatorBalances on every history *)
(* of VerifierBlocks blocks, stored mappings over a and b, both            *)
(* thresholds, either spelling of the delegate address and every set of    *)
(* failing reads                                                           *)
(***************************************************************************)
VerifierBlocks == 2

VerifierOps ==
    {NoTx, D("A", TrackedDelegate), D("A", OtherDelegate), D("B", TrackedDelegate),
     X("A", 0), X("A", 1)}

VerifierStored ==
    {<< >>}
    \cup {<<[k |-> "a", v |-> toString(x)]>> : x \in Balances}
    \cup {<<[k |-> "a", v |-> toString(x)], [k |-> "b", v |-> toString(y)]>> :
             x \in Balances, y \in Balances}

VerifierArgs ==
    {<<c, delegateAddress, stored, threshold, failedReads>> :
        c \in [1..VerifierBlocks -> VerifierOps],
        delegateAddress \in {TrackedDelegate, toLowerCase(TrackedDelegate)},
        stored \in VerifierStored,
        threshold \in Thresholds,
        failedReads \in SUBSET {"a", "b"}}

VerifierInit ==
    CallInit("verifyAllDelegatorBalances",
             {a \in VerifierArgs : a[5] \subseteq MapKeySet(a[3])})

VerifyAllCall ==
    /\ call.fn = "verifyAllDelegatorBalances"
    /\ Return(verifyAllDelegatorBalances(call.args[1], call.args[2], call.args[3],
                                         call.args[4], Len(call.args[1]), call.args[5]))

VerifierNext == VerifyAllCall

VerifierSpec == VerifierInit /\ [][VerifierNext]_vars

(***************************************************************************)
(* Reference runs: the sync handler run alone, from its first step to its  *)
(* return, on a store fs at head h, with chunks of size + 1 blocks         *)
(***************************************************************************)
SyncStep(fs, loc, c, h, cfgEndBlock, t, size) ==
    CASE loc.pc = "acquire_write" -> AcquireWriteEffect(fs, loc, t, 1)
      [] loc.pc = "sync_init" -> SyncInitEffect(fs, loc, h, cfgEndBlock)
      [] loc.pc = "sync_chunk" -> SyncChunkStep(fs, loc, c, TRUE, size)
      [] loc.pc = "sync_save_state" -> SyncSaveStateEffect(fs, loc)
      [] loc.pc = "append_part" -> AppendPartEffect(fs, loc)
      [] loc.pc = "append_index" -> AppendIndexEffect(fs, loc)
      [] loc.pc = "sync_progress" -> ProgressEffect(fs, loc)
      [] loc.pc = "sync_finish" -> SyncFinishEffect(fs, loc)

RECURSIVE SyncToEnd(_, _, _, _, _, _, _)
SyncToEnd(fs, loc, c, h, cfgEndBlock, t, size) ==
    IF loc.pc = "idle" THEN [files |-> fs, loc |-> loc]
    ELSE LET r == SyncStep(fs, loc, c, h, cfgEndBlock, t, size)
         IN  SyncToEnd(r.files, r.loc, c, h, cfgEndBlock, t, size)

UninterruptedSync(fs, c, h, cfgEndBlock, t, size) ==
    LET r == AcquireCheckEffect(fs, Idle, t, "sync", "-")
    IN  SyncToEnd(r.files, r.loc, c, h, cfgEndBlock, t, size)

\* what a reader of the store sees of the ledger
Ledger(fs) ==
    [metadata |-> fs.metadata, currentState |-> fs.currentState,
     timeline |-> getFullTimeline(fs)]

(***************************************************************************)
(* Properties                                                              *)
(***************************************************************************)
\* the handler of p is between its successful acquireSyncLock and its end
Accepted(p) ==
    /\ proc[p].op \in {"sync", "background", "verify"}
    /\ proc[p].pc \notin {"idle", "acquire_write"}

\* C1: two concurrent sync invocations that both found the store unlocked
\* are never both accepted: one of them gets the conflict response.
C1_OneSyncAccepted ==
    \A p, q \in Procs :
        (/\ p # q
         /\ proc[p].op \in {"sync", "background"} /\ proc[p].admitted = "free"
         /\ proc[q].op \in {"sync", "background"} /\ proc[q].admitted = "free")
        => ~(Accepted(p) /\ Accepted(q))

\* C1, the failing case: both invocations passed checkSyncLock before either
\* wrote the lock record, and both go on to sync.
C1_BothAccepted ==
    /\ \A p \in Procs : proc[p].op = "sync" /\ proc[p].pc = "sync_init"
                        /\ proc[p].admitted = "free"
    /\ opsLeft = MaxOps - 2
    /\ faultsLeft = MaxFaults
    /\ now = 0

\* C2: at any time at most one sync or verify run is between its successful
\* acquireSyncLock and its releaseSyncLock, however long a run lasts.
C2_AtMostOneHolder ==
    \A p, q \in Procs : p # q => ~(Accepted(p) /\ Accepted(q))

\* C2, the failing case: a run that holds the lock for more than the timeout
\* is still executing when a second run deletes its lock as stale and starts.
C2_StaleLockTakenFromRunningHolder ==
    \E p, q \in Procs :
        /\ p # q
        /\ Accepted(p) /\ proc[p].admitted = "free"
        /\ Accepted(q) /\ proc[q].admitted = "stale"
        /\ faultsLeft = MaxFaults

\* the step ends the run of p by a return of its handler (not by a crash)
RunEnds(p) ==
    /\ Accepted(p)
    /\ proc'[p].pc = "idle"
    /\ proc'[p].outcome # "crashed"

\* C3: every sync or verify run that acquired the lock and does not crash
\* ends with the lock record absent, and a sync run ends with the progress
\* record absent too.
C3_ExitLeavesNoLockNoProgress ==
    [][\A p \in Procs :
          RunEnds(p) => /\ files'.lock = << >>
                        /\ (proc[p].op = "sync" => files'.progress = << >>)]_vars

\* C3, the failing case: a run died after its progress write; once its lock
\* is stale a second sync run finds nothing to do and returns, leaving the
\* progress record of the dead run in place.
C3_UpToDateLeavesProgress ==
    \E p, q \in Procs :
        /\ p # q
        /\ proc[p].pc = "idle" /\ proc[p].outcome = "crashed"
        /\ proc[q].pc = "idle" /\ proc[q].op = "sync" /\ proc[q].outcome = "up_to_date"
        /\ proc[q].admitted = "stale"
        /\ files.lock = << >>
        /\ files.progress # << >>

\* C4: when a sync run has died at some step and a later run has resumed
\* from the store and returned, Metadata, CurrentState and the timeline are
\* those of one uninterrupted run over the same blocks.
C4_ResumeEqualsUninterrupted ==
    (proc[1].pc = "idle" /\ proc[1].outcome \in {"completed", "up_to_date"})
    => Ledger(files) =
       Ledger(UninterruptedSync(NoFiles, chain, head, endBlock, 0, chunkSize).files)

\* C4, the failing case: the run died between storeMetadata and
\* storeCurrentState of its checkpoint; the resumed run finds lastSyncedBlock
\* at the head and returns, while CurrentState and the timeline are still
\* those of the checkpoint before.
C4_ResumeSkipsLostCheckpoint ==
    /\ proc[1].pc = "idle" /\ proc[1].outcome = "up_to_date"
    /\ proc[1].admitted = "stale"
    /\ faultsLeft = 0
    /\ files.metadata # << >> /\ files.metadata[1].lastSyncedBlock = head
    /\ files.currentState # << >> /\ files.currentState[1].asOfBlock < head
    /\ files.metadata[1].totalTimelineEntries > Len(getFullTimeline(files))
    /\ Ledger(files) #
       Ledger(UninterruptedSync(NoFiles, chain, head, endBlock, 0, chunkSize).files)

\* C10: for one history, the CurrentState and the timeline that sync runs
\* leave, whatever blocks their chunks and runs end at, are those of a run
\* that takes the whole range as a single chunk.
C10_ChunkingInvariant ==
    (AllIdle /\ files.metadata # << >>)
    => LET Z == files.metadata[1].lastSyncedBlock
           single == UninterruptedSync(NoFiles, chain, Z, endBlock, 0, Z).files
       IN  /\ files.currentState = single.currentState
           /\ getFullTimeline(files) = getFullTimeline(single)

\* C10, the failing case: A delegates in block 1 and A's balance changes in
\* block 2.  Two runs, ending at blocks 1 and 2, record the new balance; a
\* single chunk over blocks 1..2 does not.
C10_SplitRunsSeeBalanceChange ==
    /\ AllIdle
    /\ head = 2
    /\ chain = <<D("A", TrackedDelegate), X("A", 1)>>
    /\ files.metadata # << >> /\ files.metadata[1].lastSyncedBlock = 2
    /\ files.currentState # << >>
    /\ files.currentState[1].delegators = <<[k |-> "a", v |-> toString(1)]>>
    /\ UninterruptedSync(NoFiles, chain, 2, endBlock, 0, 2).files.currentState[1].delegators
          = <<[k |-> "a", v |-> toString(2)]>>

\* the delegators a reader finds in CurrentState: none when it is absent
StoredDelegators(fs) ==
    IF fs.currentState = << >> THEN << >> ELSE fs.currentState[1].delegators

\* the delegators of the last persisted timeline entry: none on an empty timeline
ReplayedDelegators(fs) ==
    LET timeline == getFullTimeline(fs)
    IN  IF Len(timeline) = 0 THEN << >> ELSE timeline[Len(timeline)].delegators

\* C5: after any sequence of completed sync, verify and cleanup requests the
\* delegators of CurrentState are those of the last persisted timeline entry
\* (none when the timeline is empty).
C5_StateIsLastEntry ==
    (AllIdle /\ faultsLeft = MaxFaults)
    => MapAsFunction(StoredDelegators(files)) = MapAsFunction(ReplayedDelegators(files))

\* C5, the failing case: a cleanup cut entries off the tail of the timeline
\* and left the delegators of CurrentState as they were.
C5_TruncateKeepsLaterState ==
    /\ proc[1].pc = "idle" /\ proc[1].op = "truncate" /\ proc[1].outcome = "completed"
    /\ faultsLeft = MaxFaults
    /\ Len(getFullTimeline(files)) = 1
    /\ getFullTimeline(files)[1].blockNumber = 1
    /\ proc[1].maxBlock = 1
    /\ files.currentState # << >> /\ files.currentState[1].asOfBlock = 1
    /\ MapAsFunction(StoredDelegators(files)) # MapAsFunction(ReplayedDelegators(files))

\* C6: every persisted timeline entry has a totalVotingPower equal to the sum
\* of the balances of its delegators map.
C6_EntryTotalIsSum ==
    \A i \in 1..Len(files.partitions) :
        \A j \in 1..Len(files.partitions[i].v) :
            LET entry == files.partitions[i].v[j]
            IN  BigInt(entry.totalVotingPower)
                  = SeqSum([n \in 1..Len(entry.delegators) |-> BigInt(entry.delegators[n].v)])

\* C6: entries written by a sync checkpoint, by a background sync and by a
\* verifier fix are in the store, one of them with two delegators.
C6_EntriesOfEveryWriter ==
    /\ AllIdle
    /\ opsLeft = 0
    /\ proc[1].op = "verify" /\ proc[1].outcome = "completed"
    /\ Len(getFullTimeline(files)) >= 3
    /\ \E i \in 1..Len(getFullTimeline(files)) :
          LET entry == getFullTimeline(files)[i]
          IN  Len(entry.delegators) = 2 /\ BigInt(entry.totalVotingPower) = 3

\* Metadata agrees with CurrentState on the total and on the delegator count
TotalsConsistent(fs) ==
    (fs.metadata # << >> /\ fs.currentState # << >>)
    => /\ BigInt(fs.metadata[1].totalVotingPower)
            = calculateTotalVotingPower(fs.currentState[1].delegators)
       /\ fs.metadata[1].totalDelegators = Len(fs.currentState[1].delegators)

\* the step completes a cleanup request of p
TruncateCompletes(p) ==
    /\ proc'[p].pc = "idle" /\ proc'[p].op = "truncate" /\ proc'[p].outcome = "completed"
    /\ proc[p].pc # "idle" \/ opsLeft' # opsLeft

\* the step completes a checkpoint of a sync run or the stores of a verifier fix
CheckpointCompletes(p) ==
    \/ proc[p].op = "sync" /\ proc[p].pc \in {"sync_save_state", "append_index"}
                           /\ proc'[p].pc = "sync_progress"
    \/ proc[p].op = "verify" /\ proc[p].pc = "append_index" /\ proc'[p].pc = "verify_release"

\* C7: after every completed sync checkpoint, verifier fix and cleanup,
\* Metadata.totalVotingPower is the sum of the CurrentState balances and
\* Metadata.totalDelegators the number of its keys.
C7_TotalsMatchState ==
    [][\A p \in Procs :
          (CheckpointCompletes(p) \/ TruncateCompletes(p)) => TotalsConsistent(files')]_vars

\* C7, the failing case: a sync run threw between storeMetadata and
\* storeCurrentState of a checkpoint, and a cleanup then ran to its end.
C7_TruncateAfterHalfCheckpoint ==
    /\ proc[1].pc = "idle" /\ proc[1].op = "truncate" /\ proc[1].outcome = "completed"
    /\ faultsLeft = MaxFaults - 1
    /\ files.index # << >> /\ Len(files.index[1].partitions) > 0
    /\ files.metadata # << >> /\ files.currentState # << >>
    /\ files.metadata[1].lastSyncedBlock = proc[1].maxBlock
    /\ files.currentState[1].asOfBlock = proc[1].maxBlock
    /\ ~TotalsConsistent(files)

\* C8: the persisted timeline, partitions concatenated in index order, is
\* ordered by non-decreasing blockNumber after any sequence of sync runs and
\* verifier fixes.
C8_TimelineOrdered ==
    LET timeline == getFullTimeline(files)
    IN  \A i, j \in 1..Len(timeline) :
            i < j => timeline[i].blockNumber <= timeline[j].blockNumber

\* C8, the failing case: a verifier fix appended its entry at the head while
\* lastSyncedBlock stayed behind; the next sync run appended an entry of an
\* earlier block after it.
C8_SyncAppendsBelowFixEntry ==
    /\ AllIdle
    /\ proc[1].op = "sync" /\ proc[1].outcome = "completed"
    /\ LET timeline == getFullTimeline(files)
       IN  /\ Len(timeline) = 3
           /\ timeline[1].blockNumber = 1
           /\ timeline[2].blockNumber = 3
           /\ timeline[3].blockNumber = 2

\* the entries of a timeline at or below a block
UpTo(timeline, maxBlock) == SelectSeq(timeline, LAMBDA e : e.blockNumber <= maxBlock)

\* C9: a cleanup with maxBlock keeps every entry at or below maxBlock at each
\* of its steps, and when it completes no entry above maxBlock is returned
\* and Metadata.lastSyncedBlock and CurrentState.asOfBlock are maxBlock.
C9_TruncatePostcondition ==
    [][\A p \in Procs :
          /\ (proc'[p].op = "truncate" /\ (proc[p].pc # "idle" \/ opsLeft' # opsLeft))
             => UpTo(getFullTimeline(files'), proc'[p].maxBlock)
                  = UpTo(getFullTimeline(files), proc'[p].maxBlock)
          /\ TruncateCompletes(p)
             => /\ \A i \in 1..Len(getFullTimeline(files')) :
                      getFullTimeline(files')[i].blockNumber <= proc'[p].maxBlock
                /\ files'.metadata # << >>
                      => files'.metadata[1].lastSyncedBlock = proc'[p].maxBlock
                /\ files'.currentState # << >>
                      => files'.currentState[1].asOfBlock = proc'[p].maxBlock]_vars

\* C9, the failing case: Metadata exists and no timeline index does (a sync
\* over blocks without events); the cleanup returns at once and leaves
\* lastSyncedBlock and asOfBlock where they were.
C9_NoIndexLeavesMetadata ==
    /\ proc[1].pc = "idle" /\ proc[1].op = "truncate" /\ proc[1].outcome = "completed"
    /\ faultsLeft = MaxFaults
    /\ files.index = << >>
    /\ files.metadata # << >> /\ files.metadata[1].lastSyncedBlock # proc[1].maxBlock
    /\ files.currentState # << >> /\ files.currentState[1].asOfBlock # proc[1].maxBlock

\* the number of places of a sequence that hold x
Count(seq, x) == Cardinality({i \in 1..Len(seq) : seq[i] = x})

\* C11: for each transaction hash with a relationship-change log,
\* deduplicateEvents emits exactly that transaction's relationship-change
\* logs as DELEGATE_CHANGED and none of its weight-change logs; for each
\* other transaction hash it emits exactly its weight-change logs as
\* VOTES_CHANGED.
C11_DedupPerTransaction ==
    Called("deduplicateEvents") =>
    LET delegateChangedLogs == call.args[1]
        votesChangedLogs == call.args[2]
        hasChange(tx) == \E i \in 1..Len(delegateChangedLogs) :
                            delegateChangedLogs[i].transactionHash = tx
    IN  /\ \A l \in LogsOf("DelegateChanged") :
              Count(call.result, [type |-> "DELEGATE_CHANGED", log |-> l])
                 = Count(delegateChangedLogs, l)
        /\ \A l \in LogsOf("DelegateVotesChanged") :
              Count(call.result, [type |-> "VOTES_CHANGED", log |-> l])
                 = IF hasChange(l.transactionHash) THEN 0 ELSE Count(votesChangedLogs, l)
        /\ \A i \in 1..Len(call.result) :
              \/ /\ call.result[i].type = "DELEGATE_CHANGED"
                 /\ call.result[i].log \in LogsOf("DelegateChanged")
              \/ /\ call.result[i].type = "VOTES_CHANGED"
                 /\ call.result[i].log \in LogsOf("DelegateVotesChanged")

\* C11: a transaction with one relationship-change log and one weight-change
\* log has yielded exactly one event, the DELEGATE_CHANGED one.
C11_BothLogsOneEvent ==
    /\ Called("deduplicateEvents")
    /\ Len(call.args[1]) = 1 /\ Len(call.args[2]) = 1
    /\ call.args[1][1].transactionHash = call.args[2][1].transactionHash
    /\ call.args[1][1].logIndex = 0 /\ call.args[2][1].logIndex = 1
    /\ Len(call.result) = 1
    /\ call.result[1] = [type |-> "DELEGATE_CHANGED", log |-> call.args[1][1]]

\* the timeline and the CurrentState delegators the example history is
\* expected to give: A enters with its balance, A's balance drops, A leaves
ExampleTimeline ==
    <<[blockNumber |-> 1, totalVotingPower |-> toString(InitialBalance),
       delegators |-> <<[k |-> "a", v |-> toString(InitialBalance)]>>],
      [blockNumber |-> 2, totalVotingPower |-> toString(1),
       delegators |-> <<[k |-> "a", v |-> toString(1)]>>],
      [blockNumber |-> 3, totalVotingPower |-> toString(0), delegators |-> << >>]>>

\* a cold-start sync run over the example history has completed
ExampleColdStartDone ==
    /\ chain = ExampleChain /\ head = 3
    /\ proc[1].pc = "idle" /\ proc[1].op = "sync" /\ proc[1].outcome = "completed"
    /\ opsLeft = MaxRequests - 1

\* C12: a cold-start sync over the example history (A delegates to the
\* tracked delegate, A's balance drops by a transfer, A delegates away) leaves
\* exactly three timeline entries, {a: balance}, {a: 1} and {}, and a
\* CurrentState without delegators, with the chunks of the run and with
\* chunks of any other size.
C12_ExampleHistory ==
    /\ ExampleColdStartDone
       => /\ getFullTimeline(files) = ExampleTimeline
          /\ StoredDelegators(files) = << >>
    /\ (chain = ExampleChain /\ head = 3)
       => \A size \in 0..3 :
             LET single == UninterruptedSync(NoFiles, chain, head, endBlock, 0, size).files
             IN  /\ getFullTimeline(single) = ExampleTimeline
                 /\ StoredDelegators(single) = << >>

\* C12, the failing case: the delegation and the transfer fell in one chunk;
\* the run recorded the delegation only and A is still in CurrentState with
\* its first balance.
C12_TransferInDelegationChunkLost ==
    /\ ExampleColdStartDone
    /\ Len(getFullTimeline(files)) = 1
    /\ getFullTimeline(files)[1].blockNumber = 1
    /\ StoredDelegators(files) = <<[k |-> "a", v |-> toString(InitialBalance)]>>
    /\ LET split == UninterruptedSync(NoFiles, chain, head, endBlock, 0, 0).files
       IN  getFullTimeline(split) = ExampleTimeline /\ StoredDelegators(split) = << >>

\* C13: the timeline a ledger builder returns, of the sync route and of the
\* background route alike, has at most one entry per block number.
C13_OneEntryPerBlock ==
    (Called("processEvents") \/ Called("backgroundProcessEvents"))
    => \A i, j \in 1..Len(call.result.timeline) :
          i # j => call.result.timeline[i].blockNumber # call.result.timeline[j].blockNumber

\* C13, the failing case: A and B delegate in the same block; the builder of
\* the background route has returned one entry per event, two for the block
\* (the builder of the sync route returns one for the same events).
C13_BackgroundEntryPerEvent ==
    /\ Called("backgroundProcessEvents")
    /\ Len(call.args[1]) = 2 /\ call.args[2] = << >>
    /\ call.args[1][1].blockNumber = 1 /\ call.args[1][2].blockNumber = 1
    /\ call.args[1][1].eventType = "DELEGATE_CHANGED" /\ call.args[1][1].from = "A"
    /\ call.args[1][2].eventType = "DELEGATE_CHANGED" /\ call.args[1][2].from = "B"
    /\ Len(call.result.timeline) = 2
    /\ call.result.timeline[1].blockNumber = call.result.timeline[2].blockNumber
    /\ Len(processEvents(call.args[1], DelegateAddress, call.args[2]).timeline) = 1

\* the step is the checkSyncLock of an acquire attempt of the one client
AcquireAttempt == proc[1].pc = "idle" /\ opsLeft' = opsLeft - 1

\* C14: with the lock record of a dead holder in place, an acquire attempt
\* made more than LOCK_TIMEOUT_MS after startedAt deletes the record and
\* goes on to write its own, and an attempt made at an age of at most
\* LOCK_TIMEOUT_MS gets the conflict answer and leaves the record as it is.
C14_StaleLockReclaimed ==
    [][/\ (AcquireAttempt /\ files.lock # << >>)
          => IF now - files.lock[1].startedAt > LOCK_TIMEOUT_MS
             THEN /\ files'.lock = << >>
                  /\ proc'[1].pc = "acquire_write" /\ proc'[1].admitted = "stale"
             ELSE /\ files' = files
                  /\ proc'[1].pc = "idle" /\ proc'[1].outcome = "conflict"
       /\ (proc[1].pc = "acquire_write" /\ proc'[1].outcome # "crashed")
          => /\ files'.lock # << >> /\ files'.lock[1].startedAt = now
             /\ Accepted(1)']_vars

\* C14: the holder died without releasing; an attempt after the timeout has
\* deleted its record and now holds a lock of its own.
C14_ReclaimedAfterCrash ==
    /\ proc[1].op = "sync" /\ proc[1].pc = "sync_init" /\ proc[1].admitted = "stale"
    /\ faultsLeft = MaxFaults - 1
    /\ opsLeft = MaxOps - 2
    /\ now = LOCK_TIMEOUT_MS + 1
    /\ files.lock # << >> /\ files.lock[1].startedAt = now

\* the places of a verify run from its first fix write to its release
FixPcs == {"verify_store_meta", "append_part", "append_index", "verify_release"}

\* the balance the verifier compares a stored delegator with
EffectiveBalance(c, addr, h) ==
    IF toLowerCase(delegates(c, addr, h)) = toLowerCase(DelegateAddress)
    THEN balanceOf(c, addr, h) ELSE 0

\* CurrentState holds a balance that differs from the effective balance
DiscrepancyExists(fs, c, h) ==
    /\ fs.currentState # << >>
    /\ \E i \in 1..Len(fs.currentState[1].delegators) :
          LET e == fs.currentState[1].delegators[i]
          IN  BigInt(e.v) # EffectiveBalance(c, e.k, h)

\* the data files, the lock record left aside
DataFiles(fs) == [fs EXCEPT !.lock = << >>]

\* C15: a verify run writes nothing but the lock record unless it is in fix
\* mode and CurrentState holds a discrepancy: every step of a run in check
\* mode, and of a run in fix mode that finds no discrepancy, leaves Metadata,
\* CurrentState, the timeline index and the partitions as they are.
C15_VerifyWithoutFixWritesNothing ==
    [][\A p \in Procs :
          (proc'[p].op = "verify" /\ proc'[p] # proc[p])
          => /\ (proc[p].pc \notin FixPcs /\ proc'[p].pc \notin FixPcs)
                => DataFiles(files') = DataFiles(files)
             /\ (proc[p].pc \notin FixPcs /\ proc'[p].pc \in FixPcs)
                => /\ proc[p].mode = "fix"
                   /\ DiscrepancyExists(files, chain, head)]_vars

\* C15: a verify run has completed on a store whose CurrentState differs
\* from the chain (A's balance dropped after the last sync) without writing:
\* a run in check mode, or a run in fix mode that did not find the
\* discrepancy.
C15_DiscrepancyLeftAlone ==
    /\ proc[1].pc = "idle" /\ proc[1].op = "verify" /\ proc[1].outcome = "completed"
    /\ faultsLeft = MaxFaults
    /\ files.lock = << >>
    /\ DiscrepancyExists(files, chain, head)
    /\ files.currentState[1].asOfBlock < head
    /\ files.metadata # << >> /\ files.metadata[1].lastSyncedBlock < head
    /\ \A i \in 1..Len(getFullTimeline(files)) : getFullTimeline(files)[i].blockNumber < head

\* the delegators a fix leaves when the reads of the addresses in failed
\* threw and differences up to threshold are let pass: the balance of every
\* other address that differs is its effective balance, every key is kept
FixedDelegators(old, c, h, threshold, failed) ==
    [i \in 1..Len(old) |->
        LET actual == EffectiveBalance(c, old[i].k, h)
            stored == BigInt(old[i].v)
        IN  IF old[i].k \notin failed /\ Abs(actual - stored) > threshold
            THEN [k |-> old[i].k, v |-> toString(actual)]
            ELSE old[i]]

\* the number of entries in the partition files
StoredEntryCount(fs) == SeqSum([i \in 1..Len(fs.partitions) |-> Len(fs.partitions[i].v)])

\* C16: the first write of a fix stores a CurrentState with the keys it had,
\* in which every address found discrepant carries its effective balance (a
\* zero balance included) and every other address the balance it had; the
\* fix then adds exactly one entry to the partition files, and when its
\* index write is done the last timeline entry carries the delegators of the
\* new CurrentState.
C16_FixOverwritesDiscrepantBalances ==
    [][\A p \in Procs :
          /\ (proc[p].pc = "verify_run" /\ proc'[p].pc = "verify_store_meta")
             => LET old == files.currentState[1].delegators
                    new == files'.currentState[1].delegators
                IN  /\ \E threshold \in Thresholds, failed \in SUBSET MapKeySet(old) :
                          /\ new = FixedDelegators(old, chain, head, threshold, failed)
                          /\ new # old
                    /\ Len(proc'[p].entriesToAdd) = 1
                    /\ proc'[p].entriesToAdd[1].delegators = new
          /\ (proc[p].op = "verify" /\ proc[p].pc = "append_part"
                /\ proc'[p].pc \in {"append_part", "append_index"})
             => StoredEntryCount(files') - StoredEntryCount(files)
                   = Len(proc[p].entriesToAdd) - Len(proc'[p].entriesToAdd)
          /\ (proc[p].op = "verify" /\ proc[p].pc = "append_index"
                /\ proc'[p].pc = "verify_release")
             => LET after == getFullTimeline(files')
                IN  /\ Len(after) > 0
                    /\ after[Len(after)].delegators = files'.currentState[1].delegators
                    /\ after[Len(after)].blockNumber = files'.currentState[1].asOfBlock]_vars

\* C16: A delegated away after the last sync; a fix has set A's balance to
\* zero and kept the key, left B's balance alone and appended its entry.
C16_FixKeepsZeroBalanceKey ==
    /\ proc[1].op = "verify" /\ proc[1].pc = "verify_release"
    /\ files.currentState # << >>
    /\ files.currentState[1].delegators
          = <<[k |-> "a", v |-> toString(0)], [k |-> "b", v |-> toString(InitialBalance)]>>
    /\ files.currentState[1].asOfBlock = head
    /\ LET timeline == getFullTimeline(files)
       IN  /\ Len(timeline) = 3
           /\ timeline[3].blockNumber = head
           /\ timeline[3].delegators = files.currentState[1].delegators
           /\ timeline[2].delegators
                 = <<[k |-> "a", v |-> toString(InitialBalance)],
                     [k |-> "b", v |-> toString(InitialBalance)]>>

\* C17: a range read of the timeline returns exactly the entries of the
\* full timeline whose block number lies in the requested range, in the
\* same order, for every timeline that sync, verify and truncate requests
\* leave behind
C17_RangeReturnsEveryMatchingEntry ==
    Called("getTimelineRange") =>
        call.result = InBlockRange(getFullTimeline(files), call.args[1], call.args[2])

\* a range read that returned at least one entry of a timeline of several partitions
C17_RangeReadAcrossPartitions ==
    /\ Called("getTimelineRange")
    /\ Len(call.result) > 0
    /\ files.index # << >>
    /\ Len(files.index[1].partitions) > 1

\* the run of handler p is a sync run between its lock write and its release,
\* and the lock record is the one it wrote
HoldsSyncLock(p) ==
    /\ proc[p].op = "sync"
    /\ proc[p].pc \in SyncTryPcs \cup {"sync_finish"}
    /\ files.lock # << >>
    /\ files.lock[1].pid = p

\* Metadata, CurrentState, the timeline index and the timeline partitions
StoredLedger(fs) == <<fs.metadata, fs.currentState, fs.index, fs.partitions>>

\* C18: while a sync run holds the SyncLock, no step of a verify or cleanup
\* handler writes Metadata, CurrentState, the timeline index or a partition
C18_SyncRunOwnsLedgerWrites ==
    [][\A p \in Procs, q \in Procs :
          (/\ p # q
           /\ HoldsSyncLock(p)
           /\ proc[q].op \in {"verify", "truncate"} \/ proc'[q].op \in {"verify", "truncate"}
           /\ proc'[q] # proc[q])
          => StoredLedger(files') = StoredLedger(files)]_vars

\* a cleanup handler has rewritten the index and Metadata while the sync run
\* of the other client holds the lock and is between two checkpoint writes
C18_CleanupDuringSyncRun ==
    \E p \in Procs, q \in Procs :
        /\ p # q
        /\ HoldsSyncLock(p)
        /\ proc[p].pc \in {"sync_save_state", "append_part", "append_index"}
        /\ proc[q].op = "truncate" /\ proc[q].pc = "truncate_state"

\* the index, within its block, of the log that an event of the chunk was
\* derived from: the Transfer log for an event of fetchTransferEvents; for an
\* event of fetchDelegationEvents the DelegateChanged log, or the
\* DelegateVotesChanged log of the tracked delegate
SourceLogIndex(c, event, fetchedBy) ==
    LET logs == BlockLogs(c, event.blockNumber)
        From(l) == CASE fetchedBy = "fetchTransferEvents" -> l.event = "Transfer"
                     [] event.eventType = "DELEGATE_CHANGED" -> l.event = "DelegateChanged"
                     [] OTHER -> /\ l.event = "DelegateVotesChanged"
                                 /\ toLowerCase(l.delegate) = toLowerCase(DelegateAddress)
        hits == SelectSeq(logs, From)
    IN  hits[1].logIndex

\* the events of the two fetches merged in ascending (blockNumber, logIndex)
MergedInLogOrder(c, delegationEvents, transferEvents) ==
    LET keyed(events, fetchedBy) ==
            [i \in 1..Len(events) |->
                [key |-> events[i].blockNumber * 100
                           + SourceLogIndex(c, events[i], fetchedBy),
                 item |-> events[i]]]
        sorted == StableSort(keyed(delegationEvents, "fetchDelegationEvents")
                             \o keyed(transferEvents, "fetchTransferEvents"))
    IN  [i \in 1..Len(sorted) |-> sorted[i].item]

\* C19: the events a sync run takes up in one chunk are the events of
\* fetchDelegationEvents and fetchTransferEvents in ascending
\* (blockNumber, logIndex) order: within a block, the event derived from the
\* log of lower index comes first, whichever fetch produced it
C19_ChunkEventsInLogOrder ==
    [][\A p \in Procs :
          (proc[p].op = "sync" /\ proc[p].pc = "sync_chunk" /\ proc'[p].pc # "idle")
          => LET currentFrom == proc[p].currentFrom
                 currentTo == proc'[p].currentTo
                 currentDelegatorAddrs == MapKeys(proc[p].delegatorsState)
                 delegationEvents ==
                     fetchDelegationEvents(chain, DelegateAddress, currentFrom, currentTo,
                                           currentDelegatorAddrs, TRUE)
                 transferEvents ==
                     fetchTransferEvents(chain, DelegateAddress, currentDelegatorAddrs,
                                         currentFrom, currentTo)
             IN  proc'[p].accumulatedEvents
                   = proc[p].accumulatedEvents
                       \o MergedInLogOrder(chain, delegationEvents, transferEvents)]_vars

\* a chunk has been fetched in which a transfer of a tracked delegator gave
\* two different events of one block, one from each fetch
C19_TwoFetchesOneBlock ==
    \E p \in Procs :
        /\ proc[p].op = "sync"
        /\ proc[p].pc \in {"sync_save_state", "sync_progress"}
        /\ \E i \in 1..Len(proc[p].accumulatedEvents) :
              \E j \in (i + 1)..Len(proc[p].accumulatedEvents) :
                 LET a == proc[p].accumulatedEvents[i]
                     b == proc[p].accumulatedEvents[j]
                 IN  /\ a.blockNumber = b.blockNumber
                     /\ a.eventType = "BALANCE_CHANGED" /\ b.eventType = "BALANCE_CHANGED"
                     /\ a # b

\* handler p takes a step of a sync run and nothing is thrown in it
SyncRunStep(p) ==
    /\ proc[p].op = "sync"
    /\ proc'[p] # proc[p]
    /\ faultsLeft' = faultsLeft

\* C20: a sync run processes the range [fromBlock, toBlock] with fromBlock =
\* Metadata.lastSyncedBlock + 1 (the configured start block without Metadata)
\* and toBlock = min(configured end block, head).  The first chunk starts at
\* fromBlock, a chunk ends at or after its start and at most at toBlock, the
\* next chunk starts one block after the end of the previous one, the loop
\* ends when a chunk has ended at toBlock, and the run then completes with
\* Metadata.lastSyncedBlock = toBlock.  When fromBlock > toBlock the run
\* returns and writes nothing but the release of its lock.
C20_RunCoversItsRange ==
    [][\A p \in Procs :
          SyncRunStep(p) =>
            /\ proc[p].pc = "sync_init"
               => LET fromBlock == IF files.metadata # << >>
                                   THEN files.metadata[1].lastSyncedBlock + 1
                                   ELSE StartBlock
                      configured == IF endBlock = << >> THEN head ELSE endBlock[1]
                      toBlock == Min(configured, head)
                  IN  IF fromBlock > toBlock
                      THEN /\ proc'[p].pc = "idle"
                           /\ proc'[p].outcome = "up_to_date"
                           /\ DataFiles(files') = DataFiles(files)
                      ELSE /\ proc'[p].pc = "sync_chunk"
                           /\ proc'[p].fromBlock = fromBlock
                           /\ proc'[p].toBlock = toBlock
                           /\ proc'[p].currentFrom = fromBlock
            /\ proc[p].pc = "sync_chunk"
               => /\ proc[p].currentFrom <= proc'[p].currentTo
                  /\ proc'[p].currentTo <= proc[p].toBlock
                  /\ proc'[p].currentTo \in {proc[p].toBlock, proc[p].currentFrom + chunkSize}
            /\ proc'[p].pc = "sync_chunk" /\ proc[p].pc # "sync_init"
               => /\ proc'[p].currentFrom = proc'[p].currentTo + 1
                  /\ proc'[p].currentFrom <= proc'[p].toBlock
            /\ proc'[p].pc = "sync_finish"
               => /\ proc'[p].currentTo = proc'[p].toBlock
                  /\ files'.metadata # << >>
                  /\ files'.metadata[1].lastSyncedBlock = proc'[p].toBlock
            /\ proc[p].pc = "sync_finish"
               => /\ proc'[p].outcome = "completed"
                  /\ files'.metadata[1].lastSyncedBlock = proc[p].toBlock
            /\ proc'[p].toBlock = proc[p].toBlock
               \/ proc[p].pc = "sync_init" \/ proc'[p].pc = "idle"]_vars

\* a run with a configured end block has finished its first chunk and is
\* about to fetch the next one
C20_SecondChunkOfBoundedRun ==
    \E p \in Procs :
        /\ proc[p].op = "sync"
        /\ proc[p].pc = "sync_chunk"
        /\ proc[p].currentFrom > proc[p].fromBlock
        /\ endBlock # << >>
        /\ proc[p].toBlock = endBlock[1]

\* the events fetched by the chunks ending at or before block upTo of a sync
\* run that continues from (fs, loc) on history c at head h
RECURSIVE EventsFetchedUpTo(_, _, _, _, _, _)
EventsFetchedUpTo(fs, loc, c, h, cfgEndBlock, upTo) ==
    IF loc.pc = "idle" THEN << >>
    ELSE LET r == SyncStep(fs, loc, c, h, cfgEndBlock, 0, chunkSize)
             fetched == IF loc.pc = "sync_chunk"
                        THEN SubSeq(r.loc.accumulatedEvents,
                                    Len(loc.accumulatedEvents) + 1,
                                    Len(r.loc.accumulatedEvents))
                        ELSE << >>
         IN  IF loc.pc = "sync_chunk" /\ r.loc.currentTo > upTo THEN << >>
             ELSE fetched \o EventsFetchedUpTo(r.files, r.loc, c, h, cfgEndBlock, upTo)

\* the events the first run on an empty store fetches up to block upTo
FirstRunEvents(c, h, cfgEndBlock, upTo) ==
    LET r == AcquireCheckEffect(NoFiles, Idle, 0, "sync", "-")
    IN  EventsFetchedUpTo(r.files, r.loc, c, h, cfgEndBlock, upTo)

\* the first request on the empty store is being served
FirstRun(p) == proc[p].op = "sync" /\ opsLeft = MaxOps - 1 /\ proc[p].admitted = "free"

\* C21: a chunk of a sync run ends in a checkpoint exactly when currentTo -
\* lastSaveBlock >= saveInterval or currentTo >= toBlock; the save clears the
\* accumulated events and moves the checkpoint base to the saved mapping; and
\* the mapping a checkpoint persists is the Ledger Builder result of all the
\* events the run fetched since its start, applied to the run's initial state
\* (checked against the whole event list for the run that starts on the
\* empty store)
C21_CheckpointAppliesEveryEventOnce ==
    [][\A p \in Procs :
          (proc[p].op = "sync" /\ proc'[p] # proc[p] /\ faultsLeft' = faultsLeft) =>
            /\ proc[p].pc = "sync_chunk"
               => /\ (proc'[p].pc = "sync_save_state")
                        <=> \/ proc'[p].currentTo - proc[p].lastSaveBlock >= saveInterval
                            \/ proc'[p].currentTo >= proc[p].toBlock
                  /\ proc'[p].pc # "sync_save_state"
                        => StoredLedger(files') = StoredLedger(files)
                  /\ (FirstRun(p) /\ proc'[p].pc = "sync_save_state")
                        => proc'[p].pendingState[1].delegators
                             = processEvents(FirstRunEvents(chain, head, endBlock,
                                                            proc'[p].currentTo),
                                             DelegateAddress, << >>).currentDelegators
            /\ proc[p].pc = "sync_save_state"
               => /\ proc'[p].accumulatedEvents = << >>
                  /\ proc'[p].lastSaveBlock = proc[p].currentTo
                  /\ files'.currentState = proc[p].pendingState
                  /\ ToStringMap(proc'[p].checkpointStartState)
                        = files'.currentState[1].delegators]_vars

\* the second checkpoint of the first run is being saved, and the events of
\* the earlier checkpoint had left a delegator in the mapping
C21_SecondCheckpoint ==
    \E p \in Procs :
        /\ FirstRun(p)
        /\ proc[p].pc = "sync_save_state"
        /\ proc[p].lastSaveBlock > proc[p].fromBlock
        /\ Len(proc[p].checkpointStartState) > 0
        /\ Len(proc[p].accumulatedEvents) > 0

\* the event is a delegation away from the tracked delegate
DelegatesAway(event) ==
    /\ event.eventType = "DELEGATE_CHANGED"
    /\ toLowerCase(event.to) # toLowerCase(DelegateAddress)

\* the addresses that delegate to the tracked delegate in the events
DelegatedIn(events) ==
    {toLowerCase(events[i].from) :
        i \in {j \in 1..Len(events) : /\ events[j].eventType = "DELEGATE_CHANGED"
                                      /\ ~DelegatesAway(events[j])}}

\* C22: a ledger builder, of the sync route and of the background route
\* alike, removes a key only for a delegation away from the tracked
\* delegate: when no event of the list is one, every key of the initial
\* mapping and every address that delegated in the list is a key of the
\* returned mapping, with a balance of 0 included.
C22_ZeroBalanceKeepsKey ==
    (Called("processEvents") \/ Called("backgroundProcessEvents"))
    => LET events == call.args[1]
       IN  (\A i \in 1..Len(events) : ~DelegatesAway(events[i]))
           => MapKeySet(call.args[2]) \cup DelegatedIn(events)
                 \subseteq MapKeySet(call.result.currentDelegators)

\* C22, the failing case: the balance of delegator a changes to 0; the
\* builder of the background route has dropped a from the mapping, the
\* builder of the sync route keeps it with value 0
C22_BackgroundDropsZeroBalance ==
    /\ Called("backgroundProcessEvents")
    /\ call.args[2] = <<[k |-> "a", v |-> 2]>>
    /\ Len(call.args[1]) = 1
    /\ call.args[1][1].eventType = "BALANCE_CHANGED"
    /\ call.args[1][1].delegator = "a" /\ call.args[1][1].newBalance = 0
    /\ call.result.currentDelegators = << >>
    /\ processEvents(call.args[1], DelegateAddress, call.args[2]).currentDelegators
          = <<[k |-> "a", v |-> toString(0)]>>

\* the events of a list at blocks up to n, in their order
EventsUpTo(events, n) ==
    LET Upto(e) == e.blockNumber <= n
    IN  SelectSeq(events, Upto)

\* the mapping the sync route's builder holds after the events up to block n
MappingAfterBlock(events, initialDelegators, n) ==
    processEvents(EventsUpTo(events, n), DelegateAddress, initialDelegators).currentDelegators

\* C23: the builder of the sync route emits an entry for a block if and only
\* if the mapping after the events of that block differs from the mapping
\* before the block; a block whose events leave the mapping as it was gives
\* no entry.
C23_EntryIffMappingChanged ==
    Called("processEvents")
    => \A n \in BuilderBlocks :
          (\E i \in 1..Len(call.result.timeline) : call.result.timeline[i].blockNumber = n)
          <=> MappingAfterBlock(call.args[1], call.args[2], n)
                 # MappingAfterBlock(call.args[1], call.args[2], n - 1)

\* C23, the failing case: a, stored with balance 2, delegates again with
\* balance 2; the mapping is the same after the block and the builder has
\* returned an entry for it
C23_EntryForUnchangedMapping ==
    /\ Called("processEvents")
    /\ call.args[2] = <<[k |-> "a", v |-> 2]>>
    /\ Len(call.args[1]) = 1
    /\ call.args[1][1].eventType = "DELEGATE_CHANGED"
    /\ call.args[1][1].from = "A" /\ call.args[1][1].newBalance = 2
    /\ call.args[1][1].blockNumber = 1
    /\ call.result.currentDelegators = ToStringMap(call.args[2])
    /\ Len(call.result.timeline) = 1

\* C24: for every stored delegator whose reads succeed the verifier records
\* a discrepancy if and only if |effectiveBalance - storedBalance| >
\* threshold, with the stored and the effective balance in the record; the
\* effective balance is the on-chain balance when the address delegates to
\* the tracked delegate (compared without regard to case) and 0 otherwise.
\* A failing read is counted in failed and nowhere else, and verified +
\* failed is the number of stored delegators.
C24_DiscrepancyIffBeyondThreshold ==
    Called("verifyAllDelegatorBalances")
    => LET c == call.args[1]
           stored == call.args[3]
           threshold == call.args[4]
           failedReads == call.args[5]
           h == Len(c)
           Beyond(e) == /\ e.k \notin failedReads
                        /\ Abs(EffectiveBalance(c, e.k, h) - BigInt(e.v)) > threshold
           expected == SelectSeq(stored, Beyond)
           found == call.result.discrepancies
       IN  /\ Len(found) = Len(expected)
           /\ \A i \in 1..Len(found) :
                 /\ found[i].address = expected[i].k
                 /\ found[i].stored = expected[i].v
                 /\ found[i].actual = toString(EffectiveBalance(c, expected[i].k, h))
           /\ call.result.failed = Cardinality(failedReads)
           /\ call.result.verified + call.result.failed = Len(stored)

\* the read of a has failed, b is stored with a balance more than the
\* threshold away from its effective balance, and the delegate address was
\* given in lower case: b alone is recorded
C24_FailedReadBesideDiscrepancy ==
    /\ Called("verifyAllDelegatorBalances")
    /\ call.args[2] = toLowerCase(TrackedDelegate)
    /\ call.args[4] = 1
    /\ call.args[5] = {"a"}
    /\ Len(call.args[3]) = 2
    /\ EffectiveBalance(call.args[1], "b", Len(call.args[1])) = InitialBalance
    /\ Len(call.result.discrepancies) = 1
    /\ call.result.discrepancies[1].address = "b"
    /\ call.result.failed = 1 /\ call.result.verified = 1

\* C25: at every point of appendTimelineEntries and of
\* truncateTimelineAfterBlock, every partition listed in the stored timeline
\* index has a stored partition record.
C25_IndexedPartitionsAreStored ==
    files.index # << >>
    => \A i \in 1..Len(files.index[1].partitions) :
          PartitionExists(files, files.index[1].partitions[i].id)

\* truncateTimelineAfterBlock has deleted its orphaned partitions and has
\* not yet stored the index, which still lists one of them
C25_DeletedBeforeIndexRewritten ==
    \E p \in Procs :
        /\ proc[p].op = "truncate"
        /\ proc[p].pc = "truncate_index"
        /\ files.index # << >>
        /\ \E i \in 1..Len(files.index[1].partitions) :
              ~PartitionExists(files, files.index[1].partitions[i].id)

\* C26: a sync run whose lock was reclaimed as stale, and which ends (by
\* completion or by a caught error) while another run holds the lock that
\* run wrote, leaves that lock record in place.
C26_ReleaseLeavesOthersLock ==
    [][\A p, q \in Procs :
          (/\ p # q
           /\ proc[p].op = "sync" /\ Accepted(p)
           /\ proc'[p].pc = "idle" /\ proc'[p].outcome \in {"completed", "error"}
           /\ Accepted(q) /\ proc[q].admitted = "stale"
           /\ files.lock # << >> /\ files.lock[1].pid = q)
          => files'.lock = files.lock]_vars

\* the first run has returned, the run that reclaimed its lock is still
\* running, and no lock record is left
C26_SecondRunLeftUnlocked ==
    \E p, q \in Procs :
        /\ p # q
        /\ proc[p].op = "sync" /\ proc[p].pc = "idle"
        /\ proc[p].outcome = "completed" /\ proc[p].admitted = "free"
        /\ Accepted(q) /\ proc[q].admitted = "stale"
        /\ files.lock = << >>
        /\ faultsLeft = MaxFaults

\* C27: no step of truncateTimelineAfterBlock increases
\* Metadata.lastSyncedBlock or CurrentState.asOfBlock.
C27_TruncateNeverAdvances ==
    [][\A p \in Procs :
          (proc[p].pc \in TruncatePcs /\ proc'[p] # proc[p])
          => /\ (files.metadata # << >>
                 => files'.metadata[1].lastSyncedBlock <= files.metadata[1].lastSyncedBlock)
             /\ (files.currentState # << >>
                 => files'.currentState[1].asOfBlock <= files.currentState[1].asOfBlock)]_vars

\* in a run without faults, truncateTimelineAfterBlock has stored
\* lastSyncedBlock = maxBlock while CurrentState is still as of an earlier
\* block: the resume point was moved forward
C27_ResumePointMovedForward ==
    \E p \in Procs :
        /\ proc[p].op = "truncate" /\ proc[p].pc = "truncate_state"
        /\ faultsLeft = MaxFaults
        /\ files.metadata # << >> /\ files.currentState # << >>
        /\ files.metadata[1].lastSyncedBlock = proc[p].maxBlock
        /\ files.currentState[1].asOfBlock < proc[p].maxBlock
        /\ endBlock = << >>

\* C28: when no handler is running, no call has thrown and no process has
\* died, a store that holds both Metadata and CurrentState has
\* Metadata.lastSyncedBlock = CurrentState.asOfBlock.
C28_ResumePointMatchesState ==
    (/\ AllIdle
     /\ faultsLeft = MaxFaults
     /\ files.metadata # << >> /\ files.currentState # << >>)
    => files.metadata[1].lastSyncedBlock = files.currentState[1].asOfBlock

\* a verify run in fix mode has completed and left CurrentState as of a
\* block after Metadata.lastSyncedBlock
C28_FixLeavesStateAhead ==
    \E p \in Procs :
        /\ AllIdle
        /\ faultsLeft = MaxFaults
        /\ proc[p].op = "verify" /\ proc[p].outcome = "completed"
        /\ files.metadata # << >> /\ files.currentState # << >>
        /\ files.currentState[1].asOfBlock > files.metadata[1].lastSyncedBlock

\* C29: when every awaited call returns or throws, a sync run that has
\* written its lock eventually returns with the lock released.  Each
\* iteration of the chunk loop ends with currentFrom above its former value
\* and above the chunk's end, the loop goes on exactly while currentFrom <=
\* toBlock, and it is entered whenever fromBlock <= toBlock.
C29_SyncRunTerminates ==
    /\ [][\A p \in Procs :
             /\ (SyncRunStep(p) /\ proc[p].pc = "sync_progress")
                => /\ proc'[p].currentFrom > proc[p].currentFrom
                   /\ proc'[p].currentFrom = proc[p].currentTo + 1
                   /\ proc'[p].pc = IF proc'[p].currentFrom <= proc[p].toBlock
                                    THEN "sync_chunk" ELSE "sync_finish"
             /\ (SyncRunStep(p) /\ proc[p].pc = "sync_init"
                 /\ proc'[p].fromBlock <= proc'[p].toBlock /\ proc'[p].pc # "idle")
                => proc'[p].pc = "sync_chunk"]_vars
    /\ \A p \in Procs :
          (proc[p].op = "sync" /\ Accepted(p))
          ~> (proc[p].pc = "idle" /\ files.lock = << >>)

\* a run over a single block (fromBlock = toBlock) has gone through its one
\* chunk and is about to release the lock
C29_SingleBlockRun ==
    \E p \in Procs :
        /\ proc[p].op = "sync" /\ proc[p].pc = "sync_finish"
        /\ proc[p].fromBlock = proc[p].toBlock
        /\ proc[p].currentFrom = proc[p].toBlock + 1

\* the holders that delegate to the tracked delegate as of block n
DelegatingAt(c, n) ==
    {h \in Holders : toLowerCase(delegates(c, toLowerCase(h), n)) = toLowerCase(DelegateAddress)}

\* no log up to block n moves a delegation away from the tracked delegate
NoneDelegatesAway(c, n) ==
    \A i \in 1..n : c[i].k = "del" => c[i].to = TrackedDelegate

\* C30: once a checkpoint has stored Metadata.lastSyncedBlock = B and the
\* CurrentState as of B, every relationship-change log of the tracked
\* delegate up to B has been applied.  On a history in which nobody
\* delegates away, every holder that has delegated to the tracked delegate
\* up to B is a stored delegator.
C30_CheckpointCoversItsLogs ==
    (/\ files.metadata # << >> /\ files.currentState # << >>
     /\ files.currentState[1].asOfBlock = files.metadata[1].lastSyncedBlock
     /\ NoneDelegatesAway(chain, files.metadata[1].lastSyncedBlock))
    => \A h \in DelegatingAt(chain, files.metadata[1].lastSyncedBlock) :
          MapHas(files.currentState[1].delegators, toLowerCase(h))

\* a run whose log fetch failed has completed with lastSyncedBlock at the
\* head, on a history without delegations away, while a holder delegating
\* to the tracked delegate is not stored
C30_FailedChunkPassedOver ==
    /\ AllIdle
    /\ proc[1].op = "sync" /\ proc[1].outcome = "completed"
    /\ faultsLeft = MaxFaults - 1
    /\ files.metadata # << >> /\ files.metadata[1].lastSyncedBlock = head
    /\ files.currentState # << >>
    /\ NoneDelegatesAway(chain, head)
    /\ \E h \in DelegatingAt(chain, head) :
          ~MapHas(files.currentState[1].delegators, toLowerCase(h))

====
